---- MODULE Spec2Model ----
(***************************************************************************)
(* Model of the UniFi controller client (package protect / package unifi): *)
(* the authenticated session (NewClient, Login, Logout, GetJSON, PutJSON,  *)
(* PostJSON), the API-generation probe and the path resolver.              *)
(*                                                                         *)
(* Thread 0 is the goroutine that runs NewClient; the threads of Callers   *)
(* share the session once NewClient has returned without an error.  A call *)
(* is two steps: the handler up to the point where it blocks in            *)
(* http.Client.Do (the request is built and sent), and the handler from    *)
(* the arrival of the response (or of a transport error) to its return.    *)
(***************************************************************************)
EXTENDS Integers, Sequences, FiniteSets, TLC

VARIABLES
    SSLCert,       \* config.SSLCert: the PEM blobs of the pinned certificates
    fingerprints,  \* u.fingerprints
    new,           \* u.new: TRUE = modern API generation
    csrf,          \* u.csrf
    pc,            \* position of every thread
    req,           \* the request a thread has in flight
    done,          \* what the last finished call of a thread got and returned
    probeResp,     \* history: what the construction-time probe received
    lastTok,       \* history: last non-empty token delivered to do()
    loginTok,      \* history: token of the last successful Login response
    loginSent,     \* history: some login request has been sent
    sent,          \* history: requests sent by a thread's current or last call
    pIn, pNew, pOut, pAgain, pStep,  \* the pure-function harness of path()
    hIn, hOut, hStep,  \* input, results and progress of the other pure functions
    mem,           \* u.csrf as the two words of a Go string: data pointer, length
    rpc,           \* position of every caller between the words of u.csrf
    rloc           \* the words a caller has loaded or is about to store

vars == <<SSLCert, fingerprints, new, csrf, pc, req, done,
          probeResp, lastTok, loginTok, loginSent, sent,
          pIn, pNew, pOut, pAgain, pStep, hIn, hOut, hStep, mem, rpc, rloc>>

sessionVars == <<SSLCert, fingerprints, new, csrf, pc, req, done,
                 probeResp, lastTok, loginTok, loginSent, sent>>

pathVars == <<pIn, pNew, pOut, pAgain, pStep>>

harnessVars == <<hIn, hOut, hStep>>

raceVars == <<mem, rpc, rloc>>

\* what the steps of one specification leave alone
outsideSession == <<pathVars, harnessVars, raceVars>>
outsidePath == <<sessionVars, harnessVars, raceVars>>
outsideHarness == <<sessionVars, pathVars, raceVars>>
outsideRace == <<sessionVars, pathVars, harnessVars>>

----------------------------------------------------------------------------
(* Program constants *)

APILoginPath == "/api/login"
APILoginPathNew == "/api/auth/login"
APILogoutPath == "/api/logout"
APIPrefixNew == "/proxy/protect"
StatusOK == 200

(* Error values *)
ErrAuthenticationFailed == "authentication failed"
ErrInvalidStatusCode == "invalid status code from server"
ErrNoParams == "requested PUT with no parameters"
ErrMakingRequest == "making request"
ErrReadingResponse == "reading response"
NoErr == "nil"

----------------------------------------------------------------------------
(* The inputs the model draws from *)

URL == "https://ctl"
User == "admin"
Pass == "pw"

Callers == {1, 2}
Threads == {0} \cup Callers

ApiPaths == {"/api/cameras", "/proxy/protect/api/cameras"}
ParamLists == {<<>>, <<"">>, <<"{}">>}
ProbeStatuses == {200, 302, 403}
ApiStatuses == {200, 403}
Tokens == {"", "t1", "t2"}
Bodies == {"[1]"}
CertLists == {<<>>, <<"PEM:derA">>, <<"PEM:derA", "junk">>}

PathPrefixes == {"", "/proxy/protect", "/proxy/protectX", "/proxy"}
PathSuffixes == {"", "/", "/api/login", "/api/auth/login", "/api/logout",
                 "/api/cameras", "/api/s/default/stat/device"}
PathInputs == {a \o b : a \in PathPrefixes, b \in PathSuffixes}

----------------------------------------------------------------------------
(* Pure helpers *)

\* strings.HasPrefix
HasPrefix(s, prefix) ==
    /\ Len(s) >= Len(prefix)
    /\ SubSeq(s, 1, Len(prefix)) = prefix

\* strings.Join(elems, sep)
RECURSIVE Join(_, _)
Join(elems, sep) ==
    IF Len(elems) = 0 THEN ""
    ELSE IF Len(elems) = 1 THEN elems[1]
    ELSE elems[1] \o sep \o Join(Tail(elems), sep)

\* path that prefixes the modern login path like any other path
path_prefixesLogin(isNew, p) ==
    IF isNew
    THEN IF p = APILoginPath THEN APILoginPathNew
         ELSE IF ~HasPrefix(p, APIPrefixNew)
              THEN APIPrefixNew \o p
              ELSE p
    ELSE p

\* (u *Unifi) path of package protect
path(isNew, p) ==
    IF isNew
    THEN IF p = APILoginPath THEN APILoginPathNew
         ELSE IF ~HasPrefix(p, APIPrefixNew) /\ p # APILoginPathNew
              THEN APIPrefixNew \o p
              ELSE p
    ELSE p

\* (u *Unifi) path of package unifi
unifi_path(isNew, p) ==
    IF isNew
    THEN IF p = APILoginPath THEN APILoginPathNew
         ELSE IF ~HasPrefix(p, APIPrefixNew) /\ p # APILoginPathNew
              THEN APIPrefixNew \o p
              ELSE p
    ELSE p

\* pem.Decode: the DER bytes of a PEM block, or no block at all
IsPEM(cert) == HasPrefix(cert, "PEM:")
pemBytes(cert) == SubSeq(cert, 5, Len(cert))

\* fmt.Sprintf("%x", sha256.Sum256(b)): an injective rendering of the digest
sha256hex(b) == "sha256:" \o b

\* the headers setHeaders puts on a fresh request
NoHeaders == [XCSRFToken |-> <<>>, Accept |-> <<>>, ContentType |-> <<>>]

setHeaders(token) ==
    [XCSRFToken |-> <<token>>,
     Accept |-> <<"application/json">>,
     ContentType |-> <<"application/json; charset=utf-8">>]

EmptyReq == [method |-> "", url |-> "", hdr |-> NoHeaders, body |-> ""]

\* UniReq: GET without parameters, POST with them
UniReq(isNew, token, apiPath, params) ==
    [req |-> [method |-> IF params = "" THEN "GET" ELSE "POST",
              url |-> URL \o path(isNew, apiPath),
              hdr |-> setHeaders(token),
              body |-> params],
     err |-> NoErr]

\* UniReqPut without the check of the parameter string
UniReqPut_unchecked(isNew, token, apiPath, params) ==
    [req |-> [method |-> "PUT",
              url |-> URL \o path(isNew, apiPath),
              hdr |-> setHeaders(token),
              body |-> params],
     err |-> NoErr]

\* UniReqPut: refuses an empty parameter string before building anything
UniReqPut(isNew, token, apiPath, params) ==
    IF params = ""
    THEN [req |-> EmptyReq, err |-> ErrNoParams]
    ELSE [req |-> [method |-> "PUT",
                   url |-> URL \o path(isNew, apiPath),
                   hdr |-> setHeaders(token),
                   body |-> params],
          err |-> NoErr]

\* UniReqPost that addresses the logical path as given
UniReqPost_rawPath(isNew, token, apiPath, params) ==
    [req |-> [method |-> "POST",
              url |-> URL \o apiPath,
              hdr |-> setHeaders(token),
              body |-> params],
     err |-> NoErr]

\* UniReqPost
UniReqPost(isNew, token, apiPath, params) ==
    [req |-> [method |-> "POST",
              url |-> URL \o path(isNew, apiPath),
              hdr |-> setHeaders(token),
              body |-> params],
     err |-> NoErr]

\* the login body of Login
LoginBody == "{\"username\":\"" \o User \o "\",\"password\":\"" \o Pass \o "\"}"

\* what the transport hands back: a transport error, a response whose body
\* cannot be read to the end, or a complete response
NetErr == [outcome |-> "neterr", status |-> 0, tok |-> "", body |-> ""]

\* the probe's and Login's bodies are discarded unread
ProbeResponses ==
    {NetErr} \cup [outcome : {"http"}, status : ProbeStatuses, tok : {""}, body : {""}]

LoginResponses ==
    {NetErr} \cup [outcome : {"http"}, status : ApiStatuses, tok : Tokens, body : {""}]

Responses ==
    {NetErr}
    \cup [outcome : {"http"}, status : ApiStatuses, tok : Tokens, body : Bodies]
    \cup [outcome : {"readerr"}, status : ApiStatuses, tok : Tokens, body : {""}]

\* the part of a response a finished call is remembered by
Seen(resp) == [resp EXCEPT !.tok = ""]

\* do that stores the token of a 200 response only
do_tokenOn200(token, resp) ==
    IF resp.outcome = "neterr"
    THEN [body |-> "", err |-> ErrMakingRequest, csrf |-> token]
    ELSE IF resp.outcome = "readerr"
    THEN [body |-> resp.body, err |-> ErrReadingResponse, csrf |-> token]
    ELSE [body |-> resp.body,
          err |-> IF resp.status # StatusOK THEN ErrInvalidStatusCode ELSE NoErr,
          csrf |-> IF resp.tok # "" /\ resp.status = StatusOK THEN resp.tok ELSE token]

\* do that returns no body with ErrInvalidStatusCode
do_dropsBody(token, resp) ==
    IF resp.outcome = "neterr"
    THEN [body |-> "", err |-> ErrMakingRequest, csrf |-> token]
    ELSE IF resp.outcome = "readerr"
    THEN [body |-> resp.body, err |-> ErrReadingResponse, csrf |-> token]
    ELSE [body |-> IF resp.status # StatusOK THEN "" ELSE resp.body,
          err |-> IF resp.status # StatusOK THEN ErrInvalidStatusCode ELSE NoErr,
          csrf |-> IF resp.tok # "" THEN resp.tok ELSE token]

\* do, from the return of http.Client.Do on: body, error and the new u.csrf
do(token, resp) ==
    IF resp.outcome = "neterr"
    THEN [body |-> "", err |-> ErrMakingRequest, csrf |-> token]
    ELSE IF resp.outcome = "readerr"
    THEN [body |-> resp.body, err |-> ErrReadingResponse, csrf |-> token]
    ELSE [body |-> resp.body,
          err |-> IF resp.status # StatusOK THEN ErrInvalidStatusCode ELSE NoErr,
          csrf |-> IF resp.tok # "" THEN resp.tok ELSE token]

\* Login that accepts every status
LoginResult_anyStatus(resp) ==
    IF resp.outcome = "neterr" THEN ErrMakingRequest
    ELSE NoErr

\* Login, from the return of http.Client.Do on: the error it returns
LoginResult(resp) ==
    IF resp.outcome = "neterr" THEN ErrMakingRequest
    ELSE IF resp.status # StatusOK THEN ErrAuthenticationFailed
    ELSE NoErr

\* checkNewStyleAPI that takes everything but a redirect for the modern API
checkNewStyleAPI_notRedirect(isNew, status) ==
    IF status # 302 THEN TRUE ELSE isNew

\* checkNewStyleAPI, from the probe's response on: the new u.new
checkNewStyleAPI(isNew, status) ==
    IF status = StatusOK THEN TRUE ELSE isNew

----------------------------------------------------------------------------
(* The session *)

NoReq == [op |-> "none", apiPath |-> "", r |-> EmptyReq]
NoResp == [outcome |-> "none", status |-> 0, tok |-> "", body |-> ""]
NoDone == [op |-> "none", params |-> "", resp |-> NoResp, err |-> NoErr, body |-> ""]

ProbeReq == [op |-> "probe", apiPath |-> "/",
             r |-> [method |-> "GET", url |-> URL \o "/", hdr |-> NoHeaders, body |-> ""]]

\* the fingerprints NewClient has stored when its loop ends or stops at entry k
Fingerprints(certs, k) ==
    [i \in 1..Len(certs) |-> IF i < k THEN sha256hex(pemBytes(certs[i])) ELSE ""]

NoPaths == [protect |-> "", unifi |-> ""]

\* the variables of the other specifications while they are not in use
HarnessIdle == hIn = "" /\ hOut = "" /\ hStep = "idle"
RaceIdle == mem = <<0, 0>> /\ rpc = <<>> /\ rloc = <<>>

Init ==
    /\ SSLCert \in CertLists
    /\ fingerprints = <<>>
    /\ new = FALSE
    /\ csrf = ""
    /\ pc = [t \in Threads |-> IF t = 0 THEN "start" ELSE "idle"]
    /\ req = [t \in Threads |-> NoReq]
    /\ done = [t \in Threads |-> NoDone]
    /\ probeResp = NoResp
    /\ lastTok = ""
    /\ loginTok = ""
    /\ loginSent = FALSE
    /\ sent = [t \in Threads |-> 0]
    /\ pIn = "" /\ pNew = FALSE /\ pOut = NoPaths /\ pAgain = NoPaths /\ pStep = "session"
    /\ HarnessIdle
    /\ RaceIdle

\* NewClient up to the probe: newUnifi, the fingerprint loop (pem.Decode gives
\* no block for a blob that is not PEM, and p.Bytes then panics), and
\* checkNewStyleAPI up to client.Do
NewClient ==
    /\ pc[0] = "start"
    /\ LET bad == {i \in 1..Len(SSLCert) : ~IsPEM(SSLCert[i])}
       IN IF bad # {}
          THEN /\ fingerprints' = Fingerprints(SSLCert, CHOOSE k \in bad : \A j \in bad : k <= j)
               /\ pc' = [pc EXCEPT ![0] = "panic"]
               /\ UNCHANGED req
          ELSE /\ fingerprints' = Fingerprints(SSLCert, Len(SSLCert) + 1)
               /\ pc' = [pc EXCEPT ![0] = "probing"]
               /\ req' = [req EXCEPT ![0] = ProbeReq]
    /\ UNCHANGED <<SSLCert, new, csrf, done, probeResp, lastTok, loginTok, loginSent, sent>>
    /\ UNCHANGED outsideSession

\* NewClient that goes on to Login whatever checkNewStyleAPI returned
NewClientProbed_ignoresError(resp) ==
    /\ pc[0] = "probing"
    /\ probeResp' = Seen(resp)
    /\ new' = IF resp.outcome = "neterr" THEN new ELSE checkNewStyleAPI(new, resp.status)
    /\ pc' = [pc EXCEPT ![0] = "wait"]
    /\ req' = [req EXCEPT ![0] = [op |-> "Login", apiPath |-> APILoginPath,
                                  r |-> UniReq(new', csrf, APILoginPath, LoginBody).req]]
    /\ loginSent' = TRUE
    /\ sent' = [sent EXCEPT ![0] = 1]
    /\ UNCHANGED done
    /\ UNCHANGED <<SSLCert, fingerprints, csrf, lastTok, loginTok>>
    /\ UNCHANGED outsideSession

\* NewClient from the probe's answer on: checkNewStyleAPI sets u.new, a
\* transport error ends NewClient, otherwise Login builds and sends its request
NewClientProbed(resp) ==
    /\ pc[0] = "probing"
    /\ probeResp' = Seen(resp)
    /\ IF resp.outcome = "neterr"
       THEN /\ pc' = [pc EXCEPT ![0] = "ret"]
            /\ req' = [req EXCEPT ![0] = NoReq]
            /\ done' = [done EXCEPT ![0] = [op |-> "NewClient", params |-> "", resp |-> Seen(resp),
                                            err |-> ErrMakingRequest, body |-> ""]]
            /\ UNCHANGED <<new, loginSent, sent>>
       ELSE /\ new' = checkNewStyleAPI(new, resp.status)
            /\ pc' = [pc EXCEPT ![0] = "wait"]
            /\ req' = [req EXCEPT ![0] = [op |-> "Login", apiPath |-> APILoginPath,
                                          r |-> UniReq(new', csrf, APILoginPath, LoginBody).req]]
            /\ loginSent' = TRUE
            /\ sent' = [sent EXCEPT ![0] = 1]
            /\ UNCHANGED done
    /\ UNCHANGED <<SSLCert, fingerprints, csrf, lastTok, loginTok>>
    /\ UNCHANGED outsideSession

\* the session is handed to its callers when NewClient returned no error
Usable(t) ==
    /\ t \in Callers
    /\ pc[0] = "ret"
    /\ done[0].err = NoErr
    /\ pc[t] = "idle"

\* a call that built its request b and blocks in http.Client.Do, or that
\* returned the builder's error
Started(t, op, apiPath, params, b) ==
    IF b.err # NoErr
    THEN /\ done' = [done EXCEPT ![t] = [op |-> op, params |-> params, resp |-> NoResp,
                                         err |-> b.err, body |-> ""]]
         /\ sent' = [sent EXCEPT ![t] = 0]
         /\ UNCHANGED <<pc, req>>
    ELSE /\ pc' = [pc EXCEPT ![t] = "wait"]
         /\ sent' = [sent EXCEPT ![t] = 1]
         /\ req' = [req EXCEPT ![t] = [op |-> op, apiPath |-> apiPath, r |-> b.req]]
         /\ done' = [done EXCEPT ![t] = NoDone]

\* Login up to u.Do
Login(t) ==
    /\ Usable(t)
    /\ Started(t, "Login", APILoginPath, LoginBody, UniReq(new, csrf, APILoginPath, LoginBody))
    /\ loginSent' = TRUE
    /\ UNCHANGED <<SSLCert, fingerprints, new, csrf, probeResp, lastTok, loginTok>>
    /\ UNCHANGED outsideSession

\* Login that decides the API generation again from its own response
LoginDone_redetects(t, resp) ==
    /\ pc[t] = "wait"
    /\ req[t].op = "Login"
    /\ pc' = [pc EXCEPT ![t] = IF t = 0 THEN "ret" ELSE "idle"]
    /\ req' = [req EXCEPT ![t] = NoReq]
    /\ done' = [done EXCEPT ![t] = [op |-> IF t = 0 THEN "NewClient" ELSE "Login",
                                    params |-> "", resp |-> Seen(resp),
                                    err |-> LoginResult(resp), body |-> ""]]
    /\ loginTok' = IF resp.outcome = "http" /\ resp.status = StatusOK /\ resp.tok # ""
                   THEN resp.tok ELSE loginTok
    /\ new' = (resp.outcome = "http" /\ resp.status = StatusOK)
    /\ UNCHANGED <<SSLCert, fingerprints, csrf, probeResp, lastTok, loginSent, sent>>
    /\ UNCHANGED outsideSession

\* Login from the return of u.Do on (also the tail of NewClient)
LoginDone(t, resp) ==
    /\ pc[t] = "wait"
    /\ req[t].op = "Login"
    /\ pc' = [pc EXCEPT ![t] = IF t = 0 THEN "ret" ELSE "idle"]
    /\ req' = [req EXCEPT ![t] = NoReq]
    /\ done' = [done EXCEPT ![t] = [op |-> IF t = 0 THEN "NewClient" ELSE "Login",
                                    params |-> "", resp |-> Seen(resp),
                                    err |-> LoginResult(resp), body |-> ""]]
    /\ loginTok' = IF resp.outcome = "http" /\ resp.status = StatusOK /\ resp.tok # ""
                   THEN resp.tok ELSE loginTok
    /\ UNCHANGED <<SSLCert, fingerprints, new, csrf, probeResp, lastTok, loginSent, sent>>
    /\ UNCHANGED outsideSession

\* Logout up to u.Do: PostJSON(APILogoutPath) with no parameters
Logout(t) ==
    /\ Usable(t)
    /\ Started(t, "Logout", APILogoutPath, Join(<<>>, " "),
               UniReqPost(new, csrf, APILogoutPath, Join(<<>>, " ")))
    /\ UNCHANGED <<SSLCert, fingerprints, new, csrf, probeResp, lastTok, loginTok, loginSent>>
    /\ UNCHANGED outsideSession

\* GetJSON up to u.Do
GetJSON(t, apiPath, params) ==
    /\ Usable(t)
    /\ Started(t, "GetJSON", apiPath, Join(params, " "),
               UniReq(new, csrf, apiPath, Join(params, " ")))
    /\ UNCHANGED <<SSLCert, fingerprints, new, csrf, probeResp, lastTok, loginTok, loginSent>>
    /\ UNCHANGED outsideSession

\* PutJSON up to u.Do, or to the return of ErrNoParams
PutJSON(t, apiPath, params) ==
    /\ Usable(t)
    /\ Started(t, "PutJSON", apiPath, Join(params, " "),
               UniReqPut(new, csrf, apiPath, Join(params, " ")))
    /\ UNCHANGED <<SSLCert, fingerprints, new, csrf, probeResp, lastTok, loginTok, loginSent>>
    /\ UNCHANGED outsideSession

\* PostJSON up to u.Do
PostJSON(t, apiPath, params) ==
    /\ Usable(t)
    /\ Started(t, "PostJSON", apiPath, Join(params, " "),
               UniReqPost(new, csrf, apiPath, Join(params, " ")))
    /\ UNCHANGED <<SSLCert, fingerprints, new, csrf, probeResp, lastTok, loginTok, loginSent>>
    /\ UNCHANGED outsideSession

\* do that sends the request once more after a transport error
Done_retries(t, resp) ==
    /\ pc[t] = "wait"
    /\ req[t].op \in {"GetJSON", "PutJSON", "PostJSON", "Logout"}
    /\ IF resp.outcome = "neterr" /\ sent[t] < 2
       THEN /\ sent' = [sent EXCEPT ![t] = sent[t] + 1]
            /\ UNCHANGED <<csrf, done, pc, req, lastTok, loginTok>>
       ELSE /\ LET d == do(csrf, resp)
               IN /\ csrf' = d.csrf
                  /\ done' = [done EXCEPT ![t] = [op |-> req[t].op, params |-> req[t].r.body,
                                                  resp |-> Seen(resp), err |-> d.err,
                                                  body |-> IF req[t].op = "Logout" THEN "" ELSE d.body]]
            /\ pc' = [pc EXCEPT ![t] = "idle"]
            /\ req' = [req EXCEPT ![t] = NoReq]
            /\ lastTok' = IF resp.outcome = "http" /\ resp.tok # "" THEN resp.tok ELSE lastTok
            /\ loginTok' = IF resp.outcome = "http" /\ resp.tok # "" THEN "" ELSE loginTok
            /\ UNCHANGED sent
    /\ UNCHANGED <<SSLCert, fingerprints, new, probeResp, loginSent>>
    /\ UNCHANGED outsideSession

\* GetJSON, PutJSON, PostJSON and Logout from the return of u.Do on: do
\* stores the token and returns body and error; Logout drops the body
Done(t, resp) ==
    /\ pc[t] = "wait"
    /\ req[t].op \in {"GetJSON", "PutJSON", "PostJSON", "Logout"}
    /\ LET d == do(csrf, resp)
       IN /\ csrf' = d.csrf
          /\ done' = [done EXCEPT ![t] = [op |-> req[t].op, params |-> req[t].r.body,
                                          resp |-> Seen(resp), err |-> d.err,
                                          body |-> IF req[t].op = "Logout" THEN "" ELSE d.body]]
    /\ pc' = [pc EXCEPT ![t] = "idle"]
    /\ req' = [req EXCEPT ![t] = NoReq]
    /\ lastTok' = IF resp.outcome = "http" /\ resp.tok # "" THEN resp.tok ELSE lastTok
    /\ loginTok' = IF resp.outcome = "http" /\ resp.tok # "" THEN "" ELSE loginTok
    /\ UNCHANGED <<SSLCert, fingerprints, new, probeResp, loginSent, sent>>
    /\ UNCHANGED outsideSession

Next ==
    \/ NewClient
    \/ \E resp \in ProbeResponses : NewClientProbed(resp)
    \/ \E t \in Callers : Login(t)
    \/ \E t \in Threads, resp \in LoginResponses : LoginDone(t, resp)
    \/ \E t \in Callers : Logout(t)
    \/ \E t \in Callers, p \in ApiPaths, ps \in ParamLists : GetJSON(t, p, ps)
    \/ \E t \in Callers, p \in ApiPaths, ps \in ParamLists : PutJSON(t, p, ps)
    \/ \E t \in Callers, p \in ApiPaths, ps \in ParamLists : PostJSON(t, p, ps)
    \/ \E t \in Callers, resp \in Responses : Done(t, resp)

Spec == Init /\ [][Next]_vars

TypeOK ==
    /\ new \in BOOLEAN
    /\ csrf \in Tokens
    /\ \A t \in Threads : pc[t] \in {"start", "probing", "wait", "ret", "idle", "panic"}

----------------------------------------------------------------------------
(* The path resolver on its own: a logical path and a generation flag are   *)
(* drawn, resolved, and the result resolved once more.                      *)

InitPath ==
    /\ SSLCert = <<>>
    /\ fingerprints = <<>>
    /\ new = FALSE
    /\ csrf = ""
    /\ pc = [t \in Threads |-> IF t = 0 THEN "start" ELSE "idle"]
    /\ req = [t \in Threads |-> NoReq]
    /\ done = [t \in Threads |-> NoDone]
    /\ probeResp = NoResp
    /\ lastTok = ""
    /\ loginTok = ""
    /\ loginSent = FALSE
    /\ sent = [t \in Threads |-> 0]
    /\ HarnessIdle
    /\ RaceIdle
    /\ pIn \in PathInputs
    /\ pNew \in BOOLEAN
    /\ pOut = NoPaths
    /\ pAgain = NoPaths
    /\ pStep = "in"

Resolve ==
    /\ pStep = "in"
    /\ pOut' = [protect |-> path(pNew, pIn), unifi |-> unifi_path(pNew, pIn)]
    /\ pStep' = "out"
    /\ UNCHANGED <<pIn, pNew, pAgain>>
    /\ UNCHANGED outsidePath

ResolveAgain ==
    /\ pStep = "out"
    /\ pAgain' = [protect |-> path(pNew, pOut.protect), unifi |-> unifi_path(pNew, pOut.unifi)]
    /\ pStep' = "again"
    /\ UNCHANGED <<pIn, pNew, pOut>>
    /\ UNCHANGED outsidePath

NextPath == Resolve \/ ResolveAgain

SpecPath == InitPath /\ [][NextPath]_vars

----------------------------------------------------------------------------
(* The pure functions on their own: an input is drawn, the function is      *)
(* applied, and the result is kept next to the input.                       *)

SessionIdle ==
    /\ SSLCert = <<>>
    /\ fingerprints = <<>>
    /\ new = FALSE
    /\ csrf = ""
    /\ pc = [t \in Threads |-> IF t = 0 THEN "start" ELSE "idle"]
    /\ req = [t \in Threads |-> NoReq]
    /\ done = [t \in Threads |-> NoDone]
    /\ probeResp = NoResp
    /\ lastTok = ""
    /\ loginTok = ""
    /\ loginSent = FALSE
    /\ sent = [t \in Threads |-> 0]

PathIdle ==
    pIn = "" /\ pNew = FALSE /\ pOut = NoPaths /\ pAgain = NoPaths /\ pStep = "session"

\* the sequences over S of length at most n
SeqsUpTo(S, n) == UNION {[1..k -> S] : k \in 0..n}

(* Certificate pinning *)

MaxPinned == 2
ErrInvalidSignature == "certificate signature does not match"

OfferedCerts == {"derA", "derB", "derC"}
PinnedEntries == {sha256hex("derA"), sha256hex("derB"), "SHA256:derA", ""}

\* fingerprints.Contains
Contains(f, str) == \E i \in 1..Len(f) : str = f[i]

\* verifyPeerCertificate that looks at the leaf certificate only
verifyPeerCertificate_leafOnly(fps, certs) ==
    IF Len(fps) = 0 THEN NoErr
    ELSE IF Len(certs) > 0 /\ Contains(fps, sha256hex(certs[1])) THEN NoErr
    ELSE ErrInvalidSignature

\* verifyPeerCertificate
verifyPeerCertificate(fps, certs) ==
    IF Len(fps) = 0 THEN NoErr
    ELSE IF \E i \in 1..Len(certs) : Contains(fps, sha256hex(certs[i])) THEN NoErr
    ELSE ErrInvalidSignature

InitPin ==
    /\ SessionIdle /\ PathIdle /\ RaceIdle
    /\ hIn \in [fps : SeqsUpTo(PinnedEntries, MaxPinned), certs : SeqsUpTo(OfferedCerts, MaxPinned)]
    /\ hOut = ""
    /\ hStep = "in"

VerifyPeer ==
    /\ hStep = "in"
    /\ hOut' = verifyPeerCertificate(hIn.fps, hIn.certs)
    /\ hStep' = "verified"
    /\ UNCHANGED hIn
    /\ UNCHANGED outsideHarness

SpecPin == InitPin /\ [][VerifyPeer]_vars

(* Scalar codecs: strings of the wire *)

\* the element of a one-element set; The({e(x) : x \in {v}}) is e with v
\* computed once
The(S) == CHOOSE x \in S : TRUE

Chr(str, i) == SubSeq(str, i, i)
UpperLetters == "ABCDEFGHIJKLMNOPQRSTUVWXYZ"
LowerLetters == "abcdefghijklmnopqrstuvwxyz"

\* the simple case folding of one ASCII character
Fold(c) ==
    IF \E i \in 1..Len(UpperLetters) : Chr(UpperLetters, i) = c
    THEN Chr(LowerLetters, CHOOSE i \in 1..Len(UpperLetters) : Chr(UpperLetters, i) = c)
    ELSE c

\* strings.EqualFold(s, t)
EqualFold(s, t) ==
    /\ Len(s) = Len(t)
    /\ \A i \in 1..Len(s) : Fold(Chr(s, i)) = Fold(Chr(t, i))

\* strings.TrimLeft(str, cutset), strings.TrimRight(str, cutset), strings.Trim
RECURSIVE TrimLeft(_, _)
TrimLeft(str, cutset) ==
    IF Len(str) > 0 /\ \E i \in 1..Len(cutset) : Chr(cutset, i) = Chr(str, 1)
    THEN TrimLeft(SubSeq(str, 2, Len(str)), cutset)
    ELSE str

RECURSIVE TrimRight(_, _)
TrimRight(str, cutset) ==
    IF Len(str) > 0 /\ \E i \in 1..Len(cutset) : Chr(cutset, i) = Chr(str, Len(str))
    THEN TrimRight(SubSeq(str, 1, Len(str) - 1), cutset)
    ELSE str

Trim(str, cutset) == TrimRight(TrimLeft(str, cutset), cutset)

(* Scalar codecs: float64 values and their decimal spellings *)

\* A float64 is modelled by the shortest decimal that denotes it:
\* (-1)^neg * m * 10^e with m not divisible by 10 (zero: m = 0, e = 0), or an
\* infinity, or NaN.  Mantissas stay below 10^9, where a decimal and the
\* float64 nearest to it determine each other.
Fin(neg, m, e) == [kind |-> "fin", neg |-> neg, m |-> m, e |-> e]
Inf(neg) == [kind |-> "inf", neg |-> neg, m |-> 0, e |-> 0]
NaN == [kind |-> "nan", neg |-> FALSE, m |-> 0, e |-> 0]
Zero == Fin(FALSE, 0, 0)

RECURSIVE Normal(_, _, _)
Normal(neg, m, e) ==
    IF m = 0 THEN Fin(neg, 0, 0)
    ELSE IF m % 10 = 0 THEN Normal(neg, m \div 10, e + 1)
    ELSE Fin(neg, m, e)

Digits == "0123456789"
At(str, i) == IF i >= 1 /\ i <= Len(str) THEN Chr(str, i) ELSE ""
Take(str, k) == SubSeq(str, 1, IF k < Len(str) THEN k ELSE Len(str))
Drop(str, k) == SubSeq(str, k + 1, Len(str))
IsDigit(c) == \E i \in 1..Len(Digits) : Chr(Digits, i) = c
DigitVal(c) == (CHOOSE i \in 1..Len(Digits) : Chr(Digits, i) = c) - 1

RECURSIVE Atoi(_)
Atoi(ds) ==
    IF ds = "" THEN 0
    ELSE Atoi(SubSeq(ds, 1, Len(ds) - 1)) * 10 + DigitVal(Chr(ds, Len(ds)))

RECURSIVE Itoa(_)
Itoa(n) ==
    IF n < 10 THEN Chr(Digits, n + 1)
    ELSE Itoa(n \div 10) \o Chr(Digits, (n % 10) + 1)

RECURSIVE SpanDigits(_, _)
SpanDigits(str, i) ==
    IF IsDigit(At(str, i)) THEN SpanDigits(str, i + 1) ELSE i

RECURSIVE Zeros(_)
Zeros(k) ==
    IF k <= 0 THEN ""
    ELSE Zeros(k \div 2) \o Zeros(k \div 2) \o (IF k % 2 = 1 THEN "0" ELSE "")

RECURSIVE Pow10(_)
Pow10(k) == IF k <= 0 THEN 1 ELSE 10 * Pow10(k - 1)

ErrSyntax == "invalid syntax"
ErrRange == "value out of range"

\* the float64 nearest to (-1)^neg * m * 10^e: beyond the largest float64
\* (1.7976931348623157e308) an infinity and ErrRange, below half the smallest
\* (4.9e-324) a zero
Round64(neg, m, e) ==
    LET v == Normal(neg, m, e)
        d == Len(Itoa(v.m))
        dexp == d + v.e - 1
    IN IF v.m = 0 THEN [val |-> v, err |-> NoErr]
       ELSE IF dexp > 308 \/ (dexp = 308 /\ v.m * Pow10(9 - d) > 179769313)
       THEN [val |-> Inf(neg), err |-> ErrRange]
       ELSE IF dexp < -324 THEN [val |-> Fin(neg, 0, 0), err |-> NoErr]
       ELSE [val |-> v, err |-> NoErr]

\* strconv.special: [+-]inf, [+-]infinity, nan, in any letter case;
\* n is the number of characters used (0: not one of them)
special(str) ==
    LET signed == At(str, 1) \in {"+", "-"}
        body == IF signed THEN Drop(str, 1) ELSE str
        nsign == IF signed THEN 1 ELSE 0
    IN IF (signed \/ At(str, 1) \in {"i", "I"}) /\ EqualFold(Take(body, 8), "infinity")
       THEN [val |-> Inf(At(str, 1) = "-"), n |-> nsign + 8]
       ELSE IF (signed \/ At(str, 1) \in {"i", "I"}) /\ EqualFold(Take(body, 3), "inf")
       THEN [val |-> Inf(At(str, 1) = "-"), n |-> nsign + 3]
       ELSE IF At(str, 1) \in {"n", "N"} /\ EqualFold(Take(str, 3), "nan")
       THEN [val |-> NaN, n |-> 3]
       ELSE [val |-> Zero, n |-> 0]

\* strconv.readFloat for decimal mantissas: sign, digits with at most one
\* point, exponent.  ok: a number was read; n: the characters used.
\* (Hexadecimal mantissas and digit separators are not among the inputs.)
readFloat(str) ==
    LET signed == At(str, 1) \in {"+", "-"}
        i1 == IF signed THEN 2 ELSE 1
        i2 == SpanDigits(str, i1)
        sawdot == At(str, i2) = "."
        i3 == IF sawdot THEN SpanDigits(str, i2 + 1) ELSE i2
        int == SubSeq(str, i1, i2 - 1)
        frac == IF sawdot THEN SubSeq(str, i2 + 1, i3 - 1) ELSE ""
        sawdigits == Len(int) + Len(frac) > 0
        sawexp == At(str, i3) \in {"e", "E"}
        esigned == At(str, i3 + 1) \in {"+", "-"}
        i4 == IF esigned THEN i3 + 2 ELSE i3 + 1
        i5 == SpanDigits(str, i4)
        exp == Atoi(SubSeq(str, i4, i5 - 1))
    IN IF ~sawdigits THEN [ok |-> FALSE, neg |-> FALSE, m |-> 0, e |-> 0, n |-> 0]
       ELSE IF sawexp /\ i5 = i4 THEN [ok |-> FALSE, neg |-> FALSE, m |-> 0, e |-> 0, n |-> 0]
       ELSE [ok |-> TRUE,
             neg |-> At(str, 1) = "-",
             m |-> Atoi(int \o frac),
             e |-> (IF ~sawexp THEN 0
                    ELSE IF At(str, i3 + 1) = "-" THEN 0 - exp ELSE exp) - Len(frac),
             n |-> (IF sawexp THEN i5 ELSE i3) - 1]

\* strconv.ParseFloat(str, 64): the value and the error
ParseFloat(str) ==
    LET sp == special(str)
        rf == readFloat(str)
    IN IF sp.n > 0
       THEN IF sp.n = Len(str) THEN [val |-> sp.val, err |-> NoErr]
            ELSE [val |-> Zero, err |-> ErrSyntax]
       ELSE IF ~rf.ok \/ rf.n # Len(str) THEN [val |-> Zero, err |-> ErrSyntax]
       ELSE Round64(rf.neg, rf.m, rf.e)

\* the digits of a finite value written without an exponent
Plain(v) ==
    LET ds == Itoa(v.m)
    IN (IF v.neg THEN "-" ELSE "")
       \o (IF v.e >= 0 THEN ds \o Zeros(v.e)
           ELSE IF Len(ds) > 0 - v.e
           THEN Take(ds, Len(ds) + v.e) \o "." \o Drop(ds, Len(ds) + v.e)
           ELSE "0." \o Zeros(0 - v.e - Len(ds)) \o ds)

\* strconv.FormatFloat(v, 'f', -1, 64)
FormatFloat(v) ==
    IF v.kind = "nan" THEN "NaN"
    ELSE IF v.kind = "inf" THEN (IF v.neg THEN "-Inf" ELSE "+Inf")
    ELSE Plain(v)

\* strconv.FormatFloat(v, 'e', -1, 64) as encoding/json cleans it up:
\* d.ddde+XX; a two-digit negative exponent e-0X becomes e-X
Scientific(v) ==
    LET ds == Itoa(v.m)
        x == Len(ds) + v.e - 1
        xs == IF x < 0 THEN "-" \o Itoa(0 - x)
              ELSE IF x < 10 THEN "+0" \o Itoa(x)
              ELSE "+" \o Itoa(x)
    IN (IF v.neg THEN "-" ELSE "")
       \o Take(ds, 1) \o (IF Len(ds) > 1 THEN "." \o Drop(ds, 1) ELSE "")
       \o "e" \o xs

ErrUnsupportedValue == "json: unsupported value"

\* json.Marshal of a float64: NaN and the infinities are refused; values
\* below 1e-6 or from 1e21 are written with an exponent
json_MarshalFloat(v) ==
    IF v.kind # "fin" THEN [out |-> "", err |-> ErrUnsupportedValue]
    ELSE LET x == Len(Itoa(v.m)) + v.e - 1
         IN [out |-> IF v.m # 0 /\ (x < -6 \/ x >= 21) THEN Scientific(v) ELSE Plain(v),
             err |-> NoErr]

(* Construction of the transport *)

ConfigURLs == {"https://ctl", "https://ctl/", "https://ctl//", ""}
ConfigCerts == SeqsUpTo({"PEM:derA", "PEM:derB", "junk"}, MaxPinned)
Configs == [URL : ConfigURLs, VerifySSL : BOOLEAN, SSLCert : ConfigCerts]

\* newUnifi that keeps the configured verification next to the pinning
newUnifi_keepsVerifySSL(config) ==
    [URL |-> TrimRight(config.URL, "/"),
     fingerprints |-> [i \in 1..Len(config.SSLCert) |-> ""],
     InsecureSkipVerify |-> ~config.VerifySSL,
     VerifyPeerCertificate |-> Len(config.SSLCert) > 0]

\* newUnifi: the session's URL and fingerprint slots, and the TLS settings of
\* its transport (VerifyPeerCertificate: the pinning verifier is installed)
newUnifi(config) ==
    [URL |-> TrimRight(config.URL, "/"),
     fingerprints |-> [i \in 1..Len(config.SSLCert) |-> ""],
     InsecureSkipVerify |-> IF Len(config.SSLCert) > 0 THEN TRUE ELSE ~config.VerifySSL,
     VerifyPeerCertificate |-> Len(config.SSLCert) > 0]

InitNew ==
    /\ SessionIdle /\ PathIdle /\ RaceIdle
    /\ hIn \in Configs
    /\ hOut = ""
    /\ hStep = "config"

NewUnifi ==
    /\ hStep = "config"
    /\ hOut' = newUnifi(hIn)
    /\ hStep' = "built"
    /\ UNCHANGED hIn
    /\ UNCHANGED outsideHarness

SpecNew == InitNew /\ [][NewUnifi]_vars

(* FlexBool *)

\* the words a controller sends for a boolean, and others
BoolWords ==
    {"1", "true", "yes", "t", "armed", "active", "enabled", "ready", "up", "ok",
     "TRUE", "True", "YES", "Yes", "T", "ARMED", "Armed", "ACTIVE", "Active",
     "eNaBlEd", "Enabled", "READY", "Ready", "UP", "Up", "uP", "OK", "Ok", "oK",
     "0", "false", "no", "disarmed", "inactive", "null", "maybe", "", "11",
     "1.0", "01", "tru", "yess", "on", "y", "n", "disabled", "down",
     "up\\\"", "\\\"up", "\\\"", "u p"}
BareTokens == {"1", "0", "11", "1.0", "true", "false", "null", "{}", "[]", "[\"up\"]"}
BoolTokens == BareTokens \cup {"\"" \o w \o "\"" : w \in BoolWords}

\* FlexBool.UnmarshalJSON comparing the words as written
FlexBool_UnmarshalJSON_caseSensitive(b) ==
    LET Txt == Trim(b, "\"")
    IN [Txt |-> Txt,
        Val |-> Txt \in {"1", "true", "yes", "t", "armed", "active", "enabled",
                         "ready", "up", "ok"},
        err |-> NoErr]

FlexBool_UnmarshalJSON(b) ==
    LET Txt == Trim(b, "\"")
    IN [Txt |-> Txt,
        Val |-> \/ Txt = "1"
                \/ EqualFold(Txt, "true")
                \/ EqualFold(Txt, "yes")
                \/ EqualFold(Txt, "t")
                \/ EqualFold(Txt, "armed")
                \/ EqualFold(Txt, "active")
                \/ EqualFold(Txt, "enabled")
                \/ EqualFold(Txt, "ready")
                \/ EqualFold(Txt, "up")
                \/ EqualFold(Txt, "ok"),
        err |-> NoErr]

InitBool ==
    /\ SessionIdle /\ PathIdle /\ RaceIdle
    /\ hIn \in BoolTokens
    /\ hOut = ""
    /\ hStep = "token"

DecodeBool ==
    /\ hStep = "token"
    /\ hOut' = FlexBool_UnmarshalJSON(hIn)
    /\ hStep' = "bool"
    /\ UNCHANGED hIn
    /\ UNCHANGED outsideHarness

SpecBool == InitBool /\ [][DecodeBool]_vars

(* FlexInt *)

ErrCannotUnmarshalFlexInt == "cannot unmarshal to FlexInt"
ErrJSON == "json unmarshal"

\* the grammar of a JSON number: -?(0|[1-9][0-9]*)(.[0-9]+)?([eE][+-]?[0-9]+)?
JSONNumber(b) ==
    LET i1 == IF At(b, 1) = "-" THEN 2 ELSE 1
        i2 == SpanDigits(b, i1)
        sawdot == At(b, i2) = "."
        i3 == IF sawdot THEN SpanDigits(b, i2 + 1) ELSE i2
        sawexp == At(b, i3) \in {"e", "E"}
        i4 == IF At(b, i3 + 1) \in {"+", "-"} THEN i3 + 2 ELSE i3 + 1
        i5 == SpanDigits(b, i4)
    IN /\ i2 > i1
       /\ At(b, i1) = "0" => i2 = i1 + 1
       /\ sawdot => i3 > i2 + 1
       /\ sawexp => i5 > i4
       /\ (IF sawexp THEN i5 ELSE i3) = Len(b) + 1

\* the inside of a JSON string literal: no bare quote, every backslash
\* followed by a quote or a backslash (the escapes among the inputs)
RECURSIVE JSONChars(_)
JSONChars(str) ==
    IF str = "" THEN TRUE
    ELSE IF At(str, 1) = "\"" THEN FALSE
    ELSE IF At(str, 1) = "\\"
    THEN At(str, 2) \in {"\"", "\\"} /\ JSONChars(Drop(str, 2))
    ELSE JSONChars(Drop(str, 1))

JSONString(b) ==
    /\ Len(b) >= 2
    /\ At(b, 1) = "\"" /\ At(b, Len(b)) = "\""
    /\ JSONChars(SubSeq(b, 2, Len(b) - 1))

\* the string a JSON string literal denotes
RECURSIVE unquote(_)
unquote(str) ==
    IF str = "" THEN ""
    ELSE IF At(str, 1) = "\\" THEN At(str, 2) \o unquote(Drop(str, 2))
    ELSE At(str, 1) \o unquote(Drop(str, 1))

\* json.Unmarshal(b, &unk) with unk an interface{}: the Go value of one
\* JSON document (objects and arrays among the inputs are well formed)
json_UnmarshalAny(b) ==
    IF JSONString(b)
    THEN [kind |-> "string", num |-> Zero, str |-> unquote(SubSeq(b, 2, Len(b) - 1)), err |-> NoErr]
    ELSE IF b = "null" THEN [kind |-> "nil", num |-> Zero, str |-> "", err |-> NoErr]
    ELSE IF b \in {"true", "false"} THEN [kind |-> "bool", num |-> Zero, str |-> "", err |-> NoErr]
    ELSE IF At(b, 1) = "{" /\ At(b, Len(b)) = "}"
    THEN [kind |-> "map", num |-> Zero, str |-> "", err |-> NoErr]
    ELSE IF At(b, 1) = "[" /\ At(b, Len(b)) = "]"
    THEN [kind |-> "slice", num |-> Zero, str |-> "", err |-> NoErr]
    ELSE IF JSONNumber(b) /\ ParseFloat(b).err = NoErr
    THEN [kind |-> "float64", num |-> ParseFloat(b).val, str |-> "", err |-> NoErr]
    ELSE [kind |-> "none", num |-> Zero, str |-> "", err |-> ErrJSON]

NewFlexIntZero == [Val |-> Zero, Txt |-> "", err |-> NoErr]

\* FlexInt.UnmarshalJSON that refuses a string that is not a number
FlexInt_UnmarshalJSON_strict(f, b) ==
    LET unk == json_UnmarshalAny(b)
    IN IF unk.err # NoErr THEN [f EXCEPT !.err = ErrJSON]
       ELSE IF unk.kind = "float64"
       THEN [Val |-> unk.num, Txt |-> FormatFloat(unk.num), err |-> NoErr]
       ELSE IF unk.kind = "string"
       THEN IF ParseFloat(unk.str).err # NoErr THEN [f EXCEPT !.err = ErrSyntax]
            ELSE [Val |-> ParseFloat(unk.str).val, Txt |-> unk.str, err |-> NoErr]
       ELSE IF unk.kind = "nil" THEN [Val |-> Zero, Txt |-> "0", err |-> NoErr]
       ELSE [f EXCEPT !.err = ErrCannotUnmarshalFlexInt]

\* FlexInt.UnmarshalJSON on receiver f: the receiver afterwards and the error
FlexInt_UnmarshalJSON(f, b) ==
    LET unk == json_UnmarshalAny(b)
    IN IF unk.err # NoErr THEN [f EXCEPT !.err = ErrJSON]
       ELSE IF unk.kind = "float64"
       THEN [Val |-> unk.num, Txt |-> FormatFloat(unk.num), err |-> NoErr]
       ELSE IF unk.kind = "string"
       THEN [Val |-> ParseFloat(unk.str).val, Txt |-> unk.str, err |-> NoErr]
       ELSE IF unk.kind = "nil" THEN [Val |-> Zero, Txt |-> "0", err |-> NoErr]
       ELSE [f EXCEPT !.err = ErrCannotUnmarshalFlexInt]

\* FlexInt.MarshalJSON that writes the text kept
FlexInt_MarshalJSON_text(f) == [out |-> f.Txt, err |-> NoErr]

\* FlexInt.MarshalJSON
FlexInt_MarshalJSON(f) == json_MarshalFloat(f.Val)

\* the numbers decoded: value n, spelled tok
Mantissas == {0, 1, 15, 105}
Exponents == {-8, -2, 0, 3, 21}
FloatSamples == {Normal(neg, m, e) : neg \in BOOLEAN, m \in Mantissas, e \in Exponents}
Sign(v) == IF v.neg THEN "-" ELSE ""
ExpLower(v) == Sign(v) \o Itoa(v.m) \o "e" \o (IF v.e < 0 THEN "-" \o Itoa(0 - v.e) ELSE "+" \o Itoa(v.e))
ExpUpper(v) == Sign(v) \o Itoa(v.m) \o ".0E" \o (IF v.e < 0 THEN "-" \o Itoa(0 - v.e) ELSE Itoa(v.e))
Big == [kind |-> "big", neg |-> FALSE, m |-> 0, e |-> 0]
Junk == [kind |-> "junk", neg |-> FALSE, m |-> 0, e |-> 0]
Spelled ==
    {<<ExpLower(v), v>> : v \in FloatSamples} \cup {<<ExpUpper(v), v>> : v \in FloatSamples}
    \cup {<<"12", Fin(FALSE, 12, 0)>>, <<"1.50", Fin(FALSE, 15, -1)>>,
          <<"0.005", Fin(FALSE, 5, -3)>>, <<"-0", Fin(TRUE, 0, 0)>>,
          <<"1000", Fin(FALSE, 1, 3)>>, <<"-10.25", Fin(TRUE, 1025, -2)>>,
          <<"0", Zero>>, <<"0.0000001", Fin(FALSE, 1, -7)>>,
          <<"123456789", Fin(FALSE, 123456789, 0)>>, <<"1e-400", Zero>>}
\* strings that strconv reads and JSON does not write as numbers, and others
NumberWords ==
    {<<"+5", Fin(FALSE, 5, 0)>>, <<".5", Fin(FALSE, 5, -1)>>, <<"5.", Fin(FALSE, 5, 0)>>,
     <<"007", Fin(FALSE, 7, 0)>>, <<"1e400", Inf(FALSE)>>, <<"-1e400", Inf(TRUE)>>,
     <<"NaN", NaN>>, <<"nan", NaN>>, <<"Inf", Inf(FALSE)>>, <<"+inf", Inf(FALSE)>>,
     <<"-Infinity", Inf(TRUE)>>, <<"infin", Junk>>, <<"+nan", Junk>>, <<"", Junk>>,
     <<"abc", Junk>>, <<"12abc", Junk>>, <<" 12", Junk>>, <<"1e", Junk>>, <<"1,5", Junk>>,
     <<"-", Junk>>, <<"\"", Junk>>, <<"1 000", Junk>>, <<"true", Junk>>, <<"null", Junk>>}

RECURSIVE quote(_)
quote(str) ==
    IF str = "" THEN ""
    ELSE (IF At(str, 1) \in {"\"", "\\"} THEN "\\" ELSE "") \o At(str, 1) \o quote(Drop(str, 1))

IntInputs ==
    {[shape |-> "number", tok |-> p[1], s |-> "", n |-> p[2]] : p \in Spelled}
    \cup {[shape |-> "number", tok |-> "1e400", s |-> "", n |-> Big]}
    \cup {[shape |-> "string", tok |-> "\"" \o quote(p[1]) \o "\"", s |-> p[1], n |-> p[2]]
            : p \in Spelled \cup NumberWords}
    \cup {[shape |-> "null", tok |-> "null", s |-> "", n |-> Zero]}
    \cup {[shape |-> "bool", tok |-> t, s |-> "", n |-> Zero] : t \in {"true", "false"}}
    \cup {[shape |-> "object", tok |-> t, s |-> "", n |-> Zero] : t \in {"{}", "{\"val\":1}"}}
    \cup {[shape |-> "array", tok |-> t, s |-> "", n |-> Zero] : t \in {"[]", "[1]"}}

NotEncoded == [out |-> "", err |-> "none"]

InitInt ==
    /\ SessionIdle /\ PathIdle /\ RaceIdle
    /\ hIn \in IntInputs
    /\ hOut = [f |-> NewFlexIntZero, enc |-> NotEncoded, g |-> NewFlexIntZero]
    /\ hStep = "token"

DecodeInt ==
    /\ hStep = "token"
    /\ hOut' = [hOut EXCEPT !.f = FlexInt_UnmarshalJSON(NewFlexIntZero, hIn.tok)]
    /\ hStep' = "int"
    /\ UNCHANGED hIn
    /\ UNCHANGED outsideHarness

EncodeInt ==
    /\ hStep = "int"
    /\ hOut.f.err = NoErr
    /\ hOut' = [hOut EXCEPT !.enc = FlexInt_MarshalJSON(hOut.f)]
    /\ hStep' = "json"
    /\ UNCHANGED hIn
    /\ UNCHANGED outsideHarness

DecodeIntAgain ==
    /\ hStep = "json"
    /\ hOut.enc.err = NoErr
    /\ hOut' = [hOut EXCEPT !.g = FlexInt_UnmarshalJSON(NewFlexIntZero, hOut.enc.out)]
    /\ hStep' = "again"
    /\ UNCHANGED hIn
    /\ UNCHANGED outsideHarness

NextInt == DecodeInt \/ EncodeInt \/ DecodeIntAgain

SpecInt == InitInt /\ [][NextInt]_vars

(* The access point record in its two shapes *)

\* a JSON document: a scalar with its raw token, an object with its members
\* in the order written, or an array
Lit(tok) == [t |-> "lit", tok |-> tok, obj |-> <<>>]
Obj(members) == [t |-> "obj", tok |-> "", obj |-> members]
Arr(elems) == [t |-> "arr", tok |-> "", obj |-> elems]
Member(k, v) == [k |-> k, v |-> v]

\* what encoding/json calls the document in an UnmarshalTypeError
jsonKind(v) ==
    IF v.t = "obj" THEN "object"
    ELSE IF v.t = "arr" THEN "array"
    ELSE IF At(v.tok, 1) = "\"" THEN "string"
    ELSE IF v.tok \in {"true", "false"} THEN "bool"
    ELSE IF v.tok = "null" THEN "null"
    ELSE "number"

\* the bytes an Unmarshaler is handed (FlexInt looks at the shape only)
rawJSON(v) == IF v.t = "obj" THEN "{}" ELSE IF v.t = "arr" THEN "[]" ELSE v.tok

UnmarshalTypeError(v, target) == "json: cannot unmarshal " \o jsonKind(v) \o " into " \o target

\* Ap, with one field of each kind the decoder treats differently:
\* SiteID string `json:"site_id"`, Ap string `json:"ap"`, Bytes FlexInt `json:"bytes"`
ZeroAp == [SiteID |-> "", Ap |-> "", Bytes |-> [Val |-> Zero, Txt |-> ""]]

\* the decoder's state: the record written so far, the first type error
\* saved, and the error of an Unmarshaler, which ends the decoding
Decoding(rec) == [rec |-> rec, saved |-> NoErr, abort |-> NoErr]
saveError(st, err) == IF st.saved = NoErr THEN [st EXCEPT !.saved = err] ELSE st
Result(st) == IF st.abort # NoErr THEN st.abort ELSE st.saved

\* a string field: a string is stored, null leaves the field alone, anything
\* else is a type error that is saved while the decoding goes on
decodeString(st, field, v, target) ==
    IF jsonKind(v) = "string"
    THEN [st EXCEPT !.rec[field] = unquote(SubSeq(v.tok, 2, Len(v.tok) - 1))]
    ELSE IF jsonKind(v) = "null" THEN st
    ELSE saveError(st, UnmarshalTypeError(v, target \o "." \o field))

\* a FlexInt field: FlexInt.UnmarshalJSON gets the raw bytes, null included;
\* its error ends the decoding
decodeFlexInt(st, field, v) ==
    The({IF f.err # NoErr THEN [st EXCEPT !.abort = f.err]
         ELSE [st EXCEPT !.rec[field] = [Val |-> f.Val, Txt |-> f.Txt]]
           : f \in {FlexInt_UnmarshalJSON([Val |-> st.rec[field].Val, Txt |-> st.rec[field].Txt,
                                           err |-> NoErr], rawJSON(v))}})

\* the members of an object into an Ap, in the order written; keys that are
\* no field of Ap are skipped
RECURSIVE decodeMembers(_, _, _)
decodeMembers(st, members, target) ==
    IF members = <<>> \/ st.abort # NoErr THEN st
    ELSE The({decodeMembers(IF mb.k = "site_id" THEN decodeString(s0, "SiteID", mb.v, target)
                            ELSE IF mb.k = "ap" THEN decodeString(s0, "Ap", mb.v, target)
                            ELSE IF mb.k = "bytes" THEN decodeFlexInt(s0, "Bytes", mb.v)
                            ELSE s0,
                            rest, target)
                : s0 \in {st}, mb \in {Head(members)}, rest \in {Tail(members)}})

\* json.Unmarshal(data, v.Ap): the body as an Ap
decodeAp(st, v, target) ==
    IF jsonKind(v) = "null" THEN st
    ELSE IF v.t # "obj" THEN saveError(st, UnmarshalTypeError(v, target))
    ELSE decodeMembers(st, v.obj, target)

\* json.Unmarshal(data, &n) with n a struct { Ap `json:"ap"` }: the member
\* "ap" of the body as an Ap, into the same record
RECURSIVE decodeEnvelopeMembers(_, _)
decodeEnvelopeMembers(st, members) ==
    IF members = <<>> \/ st.abort # NoErr THEN st
    ELSE The({decodeEnvelopeMembers(IF mb.k = "ap" THEN decodeAp(s0, mb.v, "struct.ap") ELSE s0,
                                    rest)
                : s0 \in {st}, mb \in {Head(members)}, rest \in {Tail(members)}})

\* decodeEnvelope with the member "ap" not recognised
decodeEnvelope_skipsAp(st, v) ==
    IF jsonKind(v) = "null" THEN st
    ELSE IF v.t # "obj" THEN saveError(st, UnmarshalTypeError(v, "struct"))
    ELSE st

decodeEnvelope(st, v) ==
    IF jsonKind(v) = "null" THEN st
    ELSE IF v.t # "obj" THEN saveError(st, UnmarshalTypeError(v, "struct"))
    ELSE decodeEnvelopeMembers(st, v.obj)

Attempt(shape, st) == [shape |-> shape, err |-> Result(st)]

\* UAPStat.UnmarshalJSON trying the envelope first
UAPStat_UnmarshalJSON_envelopeFirst(data) ==
    The({The({IF Result(first) # NoErr
            THEN [Ap |-> second.rec, err |-> Result(second),
                  tried |-> <<Attempt("enveloped", first), Attempt("direct", second)>>]
            ELSE [Ap |-> first.rec, err |-> NoErr, tried |-> <<Attempt("enveloped", first)>>]
                : second \in {decodeAp(Decoding(first.rec), data, "Ap")}})
           : first \in {decodeEnvelope(Decoding(ZeroAp), data)}})

\* UAPStat.UnmarshalJSON returning the first error
UAPStat_UnmarshalJSON_firstError(data) ==
    The({The({IF Result(first) # NoErr
            THEN [Ap |-> second.rec,
                  err |-> IF Result(second) # NoErr THEN Result(first) ELSE NoErr,
                  tried |-> <<Attempt("direct", first), Attempt("enveloped", second)>>]
            ELSE [Ap |-> first.rec, err |-> NoErr, tried |-> <<Attempt("direct", first)>>]
                : second \in {decodeEnvelope(Decoding(first.rec), data)}})
           : first \in {decodeAp(Decoding(ZeroAp), data, "Ap")}})

\* UAPStat.UnmarshalJSON: v.Ap points into n, so both attempts write the same
\* record.  The result is the record, the error, and the attempts made with
\* the error of each.
UAPStat_UnmarshalJSON(data) ==
    The({The({IF Result(first) # NoErr
            THEN [Ap |-> second.rec, err |-> Result(second),
                  tried |-> <<Attempt("direct", first), Attempt("enveloped", second)>>]
            ELSE [Ap |-> first.rec, err |-> NoErr, tried |-> <<Attempt("direct", first)>>]
                : second \in {decodeEnvelope(Decoding(first.rec), data)}})
           : first \in {decodeAp(Decoding(ZeroAp), data, "Ap")}})

\* the bodies decoded: a payload r of members with distinct keys, well typed
\* or not, sent flat, under the key "ap", under the key "ap" beside a member
\* "bytes", or inside an array
FieldKeys == {"site_id", "ap", "bytes"}
FieldValues ==
    [site_id |-> {Lit("\"s1\""), Lit("5")},
     ap |-> {Lit("\"mac\""), Lit("null")},
     bytes |-> {Lit("10"), Lit("\"12\""), Lit("true"), Lit("null")}]
Members == UNION {{Member(k, v) : v \in FieldValues[k]} : k \in FieldKeys}
Payloads ==
    {r \in SeqsUpTo(Members, Cardinality(FieldKeys)) :
        \A i, j \in 1..Len(r) : i # j => r[i].k # r[j].k}
Forms == {"flat", "enveloped", "beside", "array"}
Body(form, r) ==
    IF form = "flat" THEN Obj(r)
    ELSE IF form = "enveloped" THEN Obj(<<Member("ap", Obj(r))>>)
    ELSE IF form = "beside" THEN Obj(<<Member("bytes", Lit("99")), Member("ap", Obj(r))>>)
    ELSE Arr(<<Obj(r)>>)

NotDecoded == [Ap |-> ZeroAp, err |-> "none", tried |-> <<>>]

InitStat ==
    /\ SessionIdle /\ PathIdle /\ RaceIdle
    /\ hIn \in Payloads
    /\ hOut = [form \in Forms |-> NotDecoded]
    /\ hStep = "body"

UnmarshalStat ==
    /\ \E form \in Forms :
          /\ hOut[form] = NotDecoded
          /\ hOut' = [hOut EXCEPT ![form] = UAPStat_UnmarshalJSON(Body(form, hIn))]
    /\ hStep' = "decoded"
    /\ UNCHANGED hIn
    /\ UNCHANGED outsideHarness

SpecStat == InitStat /\ [][UnmarshalStat]_vars

(* FlexString *)

ErrCannotUnmarshalFlexString == "cannot unmarshal to FlexString"

\* a FlexString; ArrNil: Arr is the nil slice, which json.Marshal writes null
NewFlexStringZero == [Val |-> "", Arr |-> <<>>, ArrNil |-> TRUE, hintIsArray |-> FALSE]

\* the string a string literal of the document denotes
stringOf(v) == unquote(SubSeq(v.tok, 2, Len(v.tok) - 1))

\* for _, v := range i { if s, ok := v.(string); ok { f.Arr = append(f.Arr, s) } }
RECURSIVE appendStrings(_, _)
appendStrings(arr, elems) ==
    IF elems = <<>> THEN arr
    ELSE The({appendStrings(IF jsonKind(e) = "string" THEN Append(a, stringOf(e)) ELSE a, rest)
                : a \in {arr}, e \in {Head(elems)}, rest \in {Tail(elems)}})

\* FlexString.UnmarshalJSON that keeps the elements that are no strings
FlexString_UnmarshalJSON_keepsAll(f, v) ==
    IF jsonKind(v) = "array"
    THEN The({[f |-> [Val |-> Join(arr, ", "), Arr |-> arr, ArrNil |-> arr = <<>>,
                      hintIsArray |-> TRUE],
               err |-> NoErr]
                : arr \in {f.Arr \o [i \in 1..Len(v.obj) |->
                                        IF jsonKind(v.obj[i]) = "string" THEN stringOf(v.obj[i])
                                        ELSE rawJSON(v.obj[i])]}})
    ELSE IF jsonKind(v) = "string"
    THEN [f |-> [f EXCEPT !.Val = stringOf(v), !.Arr = <<stringOf(v)>>, !.ArrNil = FALSE],
          err |-> NoErr]
    ELSE IF jsonKind(v) = "null" THEN [f |-> f, err |-> NoErr]
    ELSE [f |-> f, err |-> ErrCannotUnmarshalFlexString]

\* FlexString.UnmarshalJSON on receiver f: the receiver afterwards and the
\* error.  An array appends to the Arr the receiver has; a string leaves
\* hintIsArray as it is.
FlexString_UnmarshalJSON(f, v) ==
    IF jsonKind(v) = "array"
    THEN The({[f |-> [Val |-> Join(arr, ", "), Arr |-> arr, ArrNil |-> arr = <<>> /\ f.ArrNil,
                      hintIsArray |-> TRUE],
               err |-> NoErr]
                : arr \in {appendStrings(f.Arr, v.obj)}})
    ELSE IF jsonKind(v) = "string"
    THEN [f |-> [f EXCEPT !.Val = stringOf(v), !.Arr = <<stringOf(v)>>, !.ArrNil = FALSE],
          err |-> NoErr]
    ELSE IF jsonKind(v) = "null" THEN [f |-> f, err |-> NoErr]
    ELSE [f |-> f, err |-> ErrCannotUnmarshalFlexString]

\* json.Marshal of a string (the inputs hold no character that is escaped
\* other than the quote and the backslash) and of a []string
json_MarshalString(str) == Lit("\"" \o quote(str) \o "\"")
json_MarshalStrings(arr, isNil) ==
    IF isNil THEN Lit("null")
    ELSE Arr([i \in 1..Len(arr) |-> json_MarshalString(arr[i])])

\* FlexString.MarshalJSON
FlexString_MarshalJSON(f) ==
    IF f.hintIsArray THEN json_MarshalStrings(f.Arr, f.ArrNil)
    ELSE json_MarshalString(f.Val)

\* the documents decoded: arrays of at most MaxItems elements, and scalars
MaxItems == 2
MaxDecodes == 2
StrElems == {Lit("\"a\""), Lit("\"b c\""), Lit("1")}
StrDocs ==
    {Arr(a) : a \in SeqsUpTo(StrElems, MaxItems)}
    \cup {Lit("\"a\""), Lit("\"\""), Lit("\"a, b\""), Lit("\"q\\\"\""),
          Lit("null"), Lit("5"), Lit("true"), Obj(<<>>)}

NoStrDoc == Lit("")
NotMarshalled == Lit("")

InitStr ==
    /\ SessionIdle /\ PathIdle /\ RaceIdle
    /\ hIn = NoStrDoc
    /\ hOut = [f |-> NewFlexStringZero, err |-> NoErr, n |-> 0, enc |-> NotMarshalled]
    /\ hStep = "new"

\* one more document decoded into the same FlexString
DecodeStr ==
    /\ hStep \in {"new", "decoded"}
    /\ hOut.err = NoErr
    /\ hOut.n < MaxDecodes
    /\ \E v \in StrDocs :
          /\ hIn' = v
          /\ hOut' = The({[f |-> r.f, err |-> r.err, n |-> hOut.n + 1, enc |-> NotMarshalled]
                            : r \in {FlexString_UnmarshalJSON(hOut.f, v)}})
    /\ hStep' = "decoded"
    /\ UNCHANGED outsideHarness

EncodeStr ==
    /\ hStep = "decoded"
    /\ hOut.err = NoErr
    /\ hOut' = [hOut EXCEPT !.enc = FlexString_MarshalJSON(hOut.f)]
    /\ hStep' = "encoded"
    /\ UNCHANGED hIn
    /\ UNCHANGED outsideHarness

NextStr == DecodeStr \/ EncodeStr

SpecStr == InitStr /\ [][NextStr]_vars

(* FlexTemp *)

\* strings.SplitN(str, " ", 2): the parts before and after the first space
SplitN2(str) ==
    IF \E i \in 1..Len(str) : Chr(str, i) = " "
    THEN The({<<Take(str, i - 1), Drop(str, i)>>
                : i \in {CHOOSE i \in 1..Len(str) :
                            /\ Chr(str, i) = " "
                            /\ \A j \in 1..(i - 1) : Chr(str, j) # " "}})
    ELSE <<str>>

NewFlexTempZero == [Val |-> Zero, Txt |-> "", err |-> NoErr]

\* FlexTemp.UnmarshalJSON on receiver f: the receiver afterwards and the
\* error.  The string is split as it stands in b, quotes included.
FlexTemp_UnmarshalJSON(f, b) ==
    The({IF unk.err # NoErr THEN [f EXCEPT !.err = ErrJSON]
         ELSE IF unk.kind = "float64"
         THEN [Val |-> unk.num, Txt |-> FormatFloat(unk.num), err |-> NoErr]
         ELSE IF unk.kind = "string"
         THEN The({[Val |-> IF Len(parts) = 2 THEN ParseFloat(parts[1]).val
                            ELSE ParseFloat(unk.str).val,
                    Txt |-> unk.str, err |-> NoErr]
                     : parts \in {SplitN2(b)}})
         ELSE IF unk.kind = "nil" THEN [Val |-> Zero, Txt |-> "0", err |-> NoErr]
         ELSE [f EXCEPT !.err = ErrCannotUnmarshalFlexInt]
           : unk \in {json_UnmarshalAny(b)}})

\* the integer a finite value is in units of 10^e0, with its sign
Scaled(v, e0) == (IF v.neg THEN -1 ELSE 1) * v.m * Pow10(v.e - e0)

\* a + b and a * k for float64 values whose results a decimal of fewer than
\* ten digits holds, as the temperatures among the inputs are
FloatAdd(a, b) ==
    IF a.kind # "fin" THEN a
    ELSE IF b.kind # "fin" THEN b
    ELSE The({The({Normal(sum < 0, IF sum < 0 THEN 0 - sum ELSE sum, e0)
                     : sum \in {Scaled(a, e0) + Scaled(b, e0)}})
                : e0 \in {IF a.e < b.e THEN a.e ELSE b.e}})

FloatMulInt(a, k) ==
    IF a.kind # "fin" THEN a ELSE Normal(a.neg, a.m * k, a.e)

\* FlexTemp.Fahrenheit: (f.Val * (9 / 5)) + 32, where 9 / 5 is a quotient of
\* integer constants
FlexTemp_Fahrenheit(f) ==
    FloatAdd(FloatMulInt(f.Val, 9 \div 5), Fin(FALSE, 32, 0))

\* temperatures with their spellings, alone and followed by a unit
TempSpelled ==
    {<<"36.5", Fin(FALSE, 365, -1)>>, <<"100", Fin(FALSE, 1, 2)>>, <<"1e2", Fin(FALSE, 1, 2)>>,
     <<"-40", Fin(TRUE, 4, 1)>>, <<"0", Zero>>, <<"21.05", Fin(FALSE, 2105, -2)>>,
     <<"37", Fin(FALSE, 37, 0)>>, <<"-0.5", Fin(TRUE, 5, -1)>>, <<"5", Fin(FALSE, 5, 0)>>,
     <<"451", Fin(FALSE, 451, 0)>>}
TempUnits == {"C", "F", "C ", "deg C"}
TempWords == {<<"", Junk>>, <<"hot", Junk>>, <<"C", Junk>>, <<"36,5", Junk>>, <<"NaN", NaN>>}

TempInputs ==
    {[shape |-> "number", tok |-> p[1], s |-> "", n |-> p[2]] : p \in TempSpelled}
    \cup {[shape |-> "string", tok |-> "\"" \o p[1] \o "\"", s |-> p[1], n |-> p[2]]
            : p \in TempSpelled \cup TempWords}
    \cup {[shape |-> "unit", tok |-> "\"" \o p[1] \o " " \o u \o "\"", s |-> p[1] \o " " \o u,
           n |-> p[2]] : p \in TempSpelled, u \in TempUnits}
    \cup {[shape |-> "null", tok |-> "null", s |-> "", n |-> Zero]}
    \cup {[shape |-> "other", tok |-> t, s |-> "", n |-> Zero] : t \in {"true", "{}", "[]"}}

NoFahrenheit == [kind |-> "none", neg |-> FALSE, m |-> 0, e |-> 0]

InitTemp ==
    /\ SessionIdle /\ PathIdle /\ RaceIdle
    /\ hIn \in TempInputs
    /\ hOut = [f |-> NewFlexTempZero, before |-> NewFlexTempZero, fahrenheit |-> NoFahrenheit]
    /\ hStep = "token"

DecodeTemp ==
    /\ hStep = "token"
    /\ hOut' = The({[hOut EXCEPT !.f = f, !.before = f]
                      : f \in {FlexTemp_UnmarshalJSON(NewFlexTempZero, hIn.tok)}})
    /\ hStep' = "temp"
    /\ UNCHANGED hIn
    /\ UNCHANGED outsideHarness

\* Fahrenheit reads f.Val and writes nothing
Fahrenheit ==
    /\ hStep = "temp"
    /\ hOut.f.err = NoErr
    /\ hOut' = [hOut EXCEPT !.fahrenheit = FlexTemp_Fahrenheit(hOut.f)]
    /\ hStep' = "fahrenheit"
    /\ UNCHANGED hIn
    /\ UNCHANGED outsideHarness

NextTemp == DecodeTemp \/ Fahrenheit

SpecTemp == InitTemp /\ [][NextTemp]_vars

(* The TLS connections of the construction *)

\* what a server presents: its certificates (DER) and whether the chain
\* verifies against the system's certificate authorities
Peers == [certs : {<<"derA">>, <<"derB">>, <<"derB", "derA">>}, caValid : BOOLEAN]
PinnedConfigs ==
    [URL : {URL}, VerifySSL : BOOLEAN,
     SSLCert : {<<>>, <<"PEM:derA">>, <<"PEM:derA", "PEM:derC">>}]

\* crypto/tls with a tls.Config: the chain is verified unless
\* InsecureSkipVerify is set, then VerifyPeerCertificate is called if set
tls_Handshake(InsecureSkipVerify, VerifyPeerCertificate, fps, peer) ==
    /\ InsecureSkipVerify \/ peer.caValid
    /\ VerifyPeerCertificate => verifyPeerCertificate(fps, peer.certs) = NoErr

\* the http.Client checkNewStyleAPI makes for the probe: a transport of its
\* own with InsecureSkipVerify: !u.VerifySSL and no VerifyPeerCertificate
probeHandshake(config, u, fps, peer) ==
    tls_Handshake(~config.VerifySSL, FALSE, fps, peer)

\* u.Client, with the transport newUnifi gave it
sessionHandshake(u, fps, peer) ==
    tls_Handshake(u.InsecureSkipVerify, u.VerifyPeerCertificate, fps, peer)

Connection(client, peer, ok) == [client |-> client, peer |-> peer, sent |-> ok]

InitTLS ==
    /\ SessionIdle /\ PathIdle /\ RaceIdle
    /\ hIn \in PinnedConfigs
    /\ hOut = [u |-> newUnifi(hIn), fingerprints |-> <<>>, conns |-> <<>>]
    /\ hStep = "config"

\* NewClient up to the probe: newUnifi and the fingerprint loop
NewClientTLS ==
    /\ hStep = "config"
    /\ hOut' = [hOut EXCEPT !.fingerprints = Fingerprints(hIn.SSLCert, Len(hIn.SSLCert) + 1)]
    /\ hStep' = "probe"
    /\ UNCHANGED hIn
    /\ UNCHANGED outsideHarness

\* checkNewStyleAPI: client.Do connects, and sends the request if the
\* handshake succeeds; otherwise NewClient returns the error
ProbeTLS ==
    /\ hStep = "probe"
    /\ \E peer \in Peers :
          \E ok \in {probeHandshake(hIn, hOut.u, hOut.fingerprints, peer)} :
              /\ hOut' = [hOut EXCEPT !.conns = Append(@, Connection("probe", peer, ok))]
              /\ hStep' = IF ok THEN "login" ELSE "returned"
    /\ UNCHANGED hIn
    /\ UNCHANGED outsideHarness

\* Login: u.Do connects with the session's client
LoginTLS ==
    /\ hStep = "login"
    /\ \E peer \in Peers :
          hOut' = [hOut EXCEPT !.conns =
                      Append(@, Connection("session", peer,
                                           sessionHandshake(hOut.u, hOut.fingerprints, peer)))]
    /\ hStep' = "returned"
    /\ UNCHANGED hIn
    /\ UNCHANGED outsideHarness

NextTLS == NewClientTLS \/ ProbeTLS \/ LoginTLS

SpecTLS == InitTLS /\ [][NextTLS]_vars

----------------------------------------------------------------------------
(* The stored token under concurrent callers.  u.csrf is a Go string: two   *)
(* machine words, data pointer and length, that setHeaders loads and do     *)
(* stores one word at a time and in no fixed order.  Neither function takes *)
(* a lock.                                                                  *)

\* the strings involved, as <<data pointer, length>>; <<0, 0>> is ""
GoStrings == {<<0, 0>>, <<1, 2>>, <<2, 4>>}
Words == {1, 2}

NoLocals == [todo |-> {}, val |-> <<0, 0>>]

InitRace ==
    /\ SSLCert = <<>>
    /\ fingerprints = <<>>
    /\ new = FALSE
    /\ csrf = ""
    /\ pc = [t \in Threads |-> IF t = 0 THEN "start" ELSE "idle"]
    /\ req = [t \in Threads |-> NoReq]
    /\ done = [t \in Threads |-> NoDone]
    /\ probeResp = NoResp
    /\ lastTok = ""
    /\ loginTok = ""
    /\ loginSent = FALSE
    /\ sent = [t \in Threads |-> 0]
    /\ pIn = "" /\ pNew = FALSE /\ pOut = NoPaths /\ pAgain = NoPaths /\ pStep = "session"
    /\ HarnessIdle
    /\ mem = <<0, 0>>
    /\ rpc = [t \in Callers |-> "idle"]
    /\ rloc = [t \in Callers |-> NoLocals]

\* a caller's request reaches req.Header.Set("X-CSRF-Token", u.csrf)
ReadCsrf(t) ==
    /\ rpc[t] = "idle"
    /\ rpc' = [rpc EXCEPT ![t] = "reading"]
    /\ rloc' = [rloc EXCEPT ![t] = [todo |-> Words, val |-> <<0, 0>>]]
    /\ UNCHANGED mem
    /\ UNCHANGED outsideRace

\* setHeaders loads one word of u.csrf; with the last word the request is
\* complete and goes out
Load(t, w) ==
    /\ rpc[t] = "reading"
    /\ w \in rloc[t].todo
    /\ rloc' = [rloc EXCEPT ![t] = [todo |-> rloc[t].todo \ {w},
                                    val |-> [rloc[t].val EXCEPT ![w] = mem[w]]]]
    /\ rpc' = [rpc EXCEPT ![t] = IF rloc[t].todo = {w} THEN "wait" ELSE "reading"]
    /\ UNCHANGED mem
    /\ UNCHANGED outsideRace

\* do gets the response: without a token it returns, with one it reaches
\* u.csrf = resp.Header.Get("x-csrf-token")
WriteCsrf(t, tok) ==
    /\ rpc[t] = "wait"
    /\ IF tok = <<0, 0>>
       THEN /\ rpc' = [rpc EXCEPT ![t] = "idle"]
            /\ rloc' = [rloc EXCEPT ![t] = NoLocals]
       ELSE /\ rpc' = [rpc EXCEPT ![t] = "writing"]
            /\ rloc' = [rloc EXCEPT ![t] = [todo |-> Words, val |-> tok]]
    /\ UNCHANGED mem
    /\ UNCHANGED outsideRace

\* do stores one word of u.csrf; after the last word it returns
Store(t, w) ==
    /\ rpc[t] = "writing"
    /\ w \in rloc[t].todo
    /\ mem' = [mem EXCEPT ![w] = rloc[t].val[w]]
    /\ IF rloc[t].todo = {w}
       THEN /\ rpc' = [rpc EXCEPT ![t] = "idle"]
            /\ rloc' = [rloc EXCEPT ![t] = NoLocals]
       ELSE /\ rloc' = [rloc EXCEPT ![t] = [rloc[t] EXCEPT !.todo = rloc[t].todo \ {w}]]
            /\ UNCHANGED rpc
    /\ UNCHANGED outsideRace

NextRace ==
    \/ \E t \in Callers : ReadCsrf(t)
    \/ \E t \in Callers, w \in Words : Load(t, w)
    \/ \E t \in Callers, tok \in GoStrings : WriteCsrf(t, tok)
    \/ \E t \in Callers, w \in Words : Store(t, w)

SpecRace == InitRace /\ [][NextRace]_vars

----------------------------------------------------------------------------
(* Properties *)

\* a step in which thread t builds a request and blocks in http.Client.Do
Builds(t) == pc[t] # "wait" /\ pc'[t] = "wait"

ApiOps == {"GetJSON", "PutJSON", "PostJSON"}

\* C1: the X-CSRF-Token header of every request the session builds is the
\* token of the most recent completely received response to GetJSON, PutJSON
\* or PostJSON that carried a non-empty token, whatever its status; a response
\* without the header leaves the stored token as it was.
C1_TokenOfLastResponse ==
    /\ [](csrf = lastTok)
    /\ [][\A t \in Threads : Builds(t)
              => req'[t].r.hdr.XCSRFToken = <<lastTok>>]_vars

C1_Witness ==
    \E t, o \in Callers :
        /\ pc[t] = "wait"
        /\ req[t].op \in ApiOps
        /\ req[t].r.hdr.XCSRFToken = <<"t2">>
        /\ done[o].op \in ApiOps
        /\ done[o].resp.outcome = "http"
        /\ done[o].resp.status = 403

\* C2: after a Login answered with status 200 and a CSRF token, the requests
\* built afterwards carry that token until a later response replaces it.
C2_LoginTokenAttached ==
    [][\A t \in Threads : Builds(t) /\ loginTok # ""
           => req'[t].r.hdr.XCSRFToken = <<loginTok>>]_vars

\* the resolver as the specification words it
StartsWith(s, prefix) == \E n \in 0..Len(s) : SubSeq(s, 1, n) = prefix

Resolver(modern, P) ==
    CASE ~modern -> P
      [] modern /\ P = "/api/login" -> "/api/auth/login"
      [] modern /\ P # "/api/login" /\ ~StartsWith(P, "/proxy/protect")
                /\ P # "/api/auth/login" -> "/proxy/protect" \o P
      [] OTHER -> P

\* C3: in both packages path(P) is the reference resolver: P in legacy state;
\* in modern state the modern login path for the legacy login path, the prefix
\* prepended when P neither starts with it nor is the modern login path, and
\* P otherwise.
C3_PathIsResolver ==
    pStep \in {"out", "again"}
        => /\ pOut.protect = Resolver(pNew, pIn)
           /\ pOut.unifi = Resolver(pNew, pIn)

C3_Witness ==
    /\ pStep = "out"
    /\ pNew
    /\ pIn = "/api/auth/login"
    /\ pOut.protect = "/api/auth/login"

\* C4: every request a thread has in flight after the probe is addressed to
\* the base URL followed by path(P) for the logical path P it was asked for.
C4_AddressedByResolver ==
    \A t \in Threads :
        pc[t] = "wait" => req[t].r.url = URL \o path(new, req[t].apiPath)

C4_Witness ==
    \E t \in Callers :
        /\ pc[t] = "wait"
        /\ new
        /\ req[t].op = "PostJSON"
        /\ req[t].apiPath = "/api/cameras"
        /\ req[t].r.url = URL \o "/proxy/protect/api/cameras"

\* C5: once the probe has received a response, the generation flag is modern
\* exactly if the status was 200.
C5_ModernIff200 ==
    probeResp.outcome = "http" => (new <=> probeResp.status = 200)

C5_Witness ==
    /\ probeResp.outcome = "http"
    /\ probeResp.status = 403
    /\ ~new
    /\ pc[0] = "ret"

\* C6: a login request is sent only after the probe has received a response,
\* and when the probe fails in the transport NewClient returns an error and no
\* login request is sent.
C6_ProbeBeforeLogin ==
    /\ loginSent => probeResp.outcome = "http"
    /\ probeResp.outcome = "neterr"
           => pc[0] = "ret" /\ done[0].err # NoErr /\ ~loginSent
                /\ \A t \in Threads : req[t].op # "Login"

C6_Witness ==
    /\ probeResp.outcome = "neterr"
    /\ pc[0] = "ret"
    /\ done[0].err = ErrMakingRequest

\* C7: once NewClient has returned, no step changes the generation flag or
\* issues a probe.
C7_FlagFrozen ==
    [][pc[0] = "ret" => /\ new' = new
                        /\ \A t \in Threads : req'[t].op # "probe"]_vars

C7_Witness ==
    /\ new
    /\ \E t, o \in Callers :
          /\ done[t].op = "Login" /\ done[t].resp.status = 403
          /\ done[o].op = "GetJSON" /\ done[o].resp.status = 403

C9_BodyWithStatusError ==
    \A t \in Callers :
        done[t].op \in ApiOps /\ done[t].resp.outcome = "http" /\ done[t].resp.status # 200
            => /\ done[t].err = ErrInvalidStatusCode
               /\ done[t].body = done[t].resp.body

C9_Witness ==
    \E t \in Callers :
        /\ done[t].op = "PutJSON"
        /\ done[t].resp.status = 403
        /\ done[t].err = ErrInvalidStatusCode
        /\ done[t].body = "[1]"

\* C10: PutJSON with an empty parameter string returns ErrNoParams without a
\* request being built or sent, and leaves the stored token and the generation
\* flag as they were.
C10_NoParamsFailsFast ==
    /\ [](\A t \in Threads : req[t].op = "PutJSON" => req[t].r.body # "")
    /\ [][\A t \in Callers :
            done'[t] # done[t] /\ done'[t].op = "PutJSON" /\ done'[t].params = ""
                => /\ done'[t].err = ErrNoParams
                   /\ pc' = pc /\ req' = req
                   /\ csrf' = csrf /\ new' = new]_vars

C10_Witness ==
    \E t \in Callers :
        /\ done[t].op = "PutJSON"
        /\ done[t].err = ErrNoParams
        /\ pc[t] = "idle"
        /\ csrf = "t1"
        /\ new

\* a finished call that did not get a complete 200 response
Failed(d) ==
    \/ d.resp.outcome \in {"neterr", "readerr"}
    \/ d.resp.outcome = "http" /\ d.resp.status # 200

\* C11: a call of Login, Logout, GetJSON, PutJSON or PostJSON sends at most
\* one request whatever it gets back, and a call that failed has returned an
\* error to its caller.
C11_NoRetry ==
    \A t \in Threads :
        /\ sent[t] <= 1
        /\ pc[t] = "wait" => sent[t] = 1
        /\ done[t].op \in {"Login", "Logout", "GetJSON", "PutJSON", "PostJSON"} /\ Failed(done[t])
               => done[t].err # NoErr /\ pc[t] = "idle" /\ sent[t] = 1

C11_Witness ==
    \E t, o \in Callers :
        /\ done[t].op = "GetJSON" /\ done[t].resp.outcome = "neterr"
        /\ done[t].err = ErrMakingRequest /\ sent[t] = 1
        /\ done[o].op = "Login" /\ done[o].resp.status = 403 /\ sent[o] = 1

\* C12: the accesses to the stored token exclude each other: while one caller
\* is writing u.csrf no other caller is reading or writing it.
C12_TokenAccessExclusive ==
    \A t, o \in Callers :
        t # o /\ rpc[t] = "writing" => rpc[o] \notin {"reading", "writing"}

\* the elements of a sequence
Range(f) == {f[i] : i \in 1..Len(f)}

\* C13: verifyPeerCertificate succeeds exactly if nothing is pinned or the
\* SHA-256 digest of one of the offered certificates, in lowercase hex, is
\* among the pinned fingerprints; otherwise it returns ErrInvalidSignature.
C13_PinnedOrUnpinned ==
    hStep = "verified" =>
        LET offered == {sha256hex(c) : c \in Range(hIn.certs)}
            ok == Range(hIn.fps) = {} \/ offered \cap Range(hIn.fps) # {}
        IN /\ hOut = NoErr <=> ok
           /\ ~ok => hOut = ErrInvalidSignature

C13_Witness ==
    /\ hStep = "verified"
    /\ hIn.fps = <<"SHA256:derA", sha256hex("derB")>>
    /\ hIn.certs = <<"derA", "derB">>
    /\ hOut = NoErr

\* what a transport does with the server's certificate: crypto/tls validates
\* the chain unless InsecureSkipVerify is set, and calls the verifier if one
\* is installed
StandardValidation(u) == ~u.InsecureSkipVerify
Pinning(u) == u.VerifyPeerCertificate

Truthy == {"1", "true", "yes", "t", "armed", "active", "enabled", "ready", "up", "ok"}

RECURSIVE Lowered(_)
Lowered(str) == IF str = "" THEN "" ELSE Fold(Chr(str, 1)) \o Lowered(SubSeq(str, 2, Len(str)))

RECURSIVE Quotes(_)
Quotes(k) == IF k = 0 THEN "" ELSE "\"" \o Quotes(k - 1)

DecimalRendering(txt, v) ==
    LET body == IF At(txt, 1) = "-" THEN Drop(txt, 1) ELSE txt
        dot == IF \E i \in 1..Len(body) : Chr(body, i) = "."
               THEN CHOOSE i \in 1..Len(body) : Chr(body, i) = "."
               ELSE Len(body) + 1
        int == Take(body, dot - 1)
        frac == Drop(body, IF dot > Len(body) THEN Len(body) ELSE dot)
        sig == TrimLeft(int \o frac, "0")
        digits == TrimRight(sig, "0")
    IN /\ (At(txt, 1) = "-") = v.neg
       /\ int # ""
       /\ \A i \in 1..Len(int \o frac) : IsDigit(Chr(int \o frac, i))
       /\ IF v.m = 0 THEN digits = ""
          ELSE digits = Itoa(v.m) /\ v.e = Len(sig) - Len(digits) - Len(frac)

Decoded == hStep \in {"int", "json", "again"}

\* C18: decoding a FlexInt from a JSON number n (one a float64 holds) gives
\* value n and as text the decimal rendering of n; from a JSON string s it
\* never fails, the text is s and the value is the float s spells (an
\* infinity if it is too large for a float64), or 0 if s is not a float; from
\* null it gives value 0 and text "0"; an object, an array or a boolean is
\* refused with ErrCannotUnmarshalFlexInt.
C18_FlexIntDecode ==
    Decoded =>
        /\ hIn.shape = "number" /\ hIn.n.kind = "fin"
               => /\ hOut.f.err = NoErr
                  /\ hOut.f.Val = hIn.n
                  /\ DecimalRendering(hOut.f.Txt, hIn.n)
        /\ hIn.shape = "string"
               => /\ hOut.f.err = NoErr
                  /\ hOut.f.Txt = hIn.s
                  /\ hOut.f.Val = IF hIn.n.kind = "junk" THEN Zero ELSE hIn.n
        /\ hIn.shape = "null"
               => hOut.f.err = NoErr /\ hOut.f.Val = Zero /\ hOut.f.Txt = "0"
        /\ hIn.shape \in {"object", "array", "bool"}
               => hOut.f.err = ErrCannotUnmarshalFlexInt

C18_Witness ==
    /\ hStep = "int"
    /\ hIn.shape = "string"
    /\ hIn.s = "12abc"
    /\ hOut.f = [Val |-> Zero, Txt |-> "12abc", err |-> NoErr]

\* C19: every FlexInt that decode produced (from a number, a string or null)
\* is encoded as a JSON number that denotes its value, whatever text it
\* keeps; a decoded JSON number n is encoded as n; decoding the encoding
\* gives the value of the first decode.
C19_EncodeEmitsValue ==
    /\ hStep \in {"json", "again"}
           => /\ hOut.enc.err = NoErr
              /\ JSONNumber(hOut.enc.out)
              /\ ParseFloat(hOut.enc.out).val = hOut.f.Val
              /\ hIn.shape = "number" => ParseFloat(hOut.enc.out).val = hIn.n
    /\ hStep = "again"
           => hOut.g.err = NoErr /\ hOut.g.Val = hOut.f.Val

DecodedForms == {form \in Forms : hOut[form] # NotDecoded}
ErrorOf(res, shape) == {res.tried[i].err : i \in {j \in 1..Len(res.tried) : res.tried[j].shape = shape}}

\* C15 as claimed: the decoder first tries the body as the enveloped shape
\* {"ap": T} and tries the direct shape T only if the enveloped attempt fails.
C15_EnvelopedFirst ==
    hStep = "decoded" =>
        \A form \in DecodedForms :
            LET tried == hOut[form].tried
            IN /\ tried[1].shape = "enveloped"
               /\ Len(tried) = 2 <=> tried[1].err # NoErr
               /\ Len(tried) = 2 => tried[2].shape = "direct"

\* C15 as amended: the decoder first tries the body as the direct shape T and
\* tries the enveloped shape {"ap": T} only if, and whenever, the direct
\* attempt fails.
C15_DirectFirst ==
    hStep = "decoded" =>
        \A form \in DecodedForms :
            LET tried == hOut[form].tried
            IN /\ tried[1].shape = "direct"
               /\ Len(tried) = 2 <=> tried[1].err # NoErr
               /\ Len(tried) = 2 => tried[2].shape = "enveloped"

C15_Witness ==
    /\ hStep = "decoded"
    /\ hIn = <<Member("bytes", Lit("10"))>>
    /\ "enveloped" \in DecodedForms
    /\ Len(hOut["enveloped"].tried) = 2
    /\ hOut["enveloped"].tried[1] = [shape |-> "direct",
                                     err |-> "json: cannot unmarshal object into Ap.Ap"]
    /\ hOut["enveloped"].err = NoErr

BothFailed(res) == Len(res.tried) = 2 /\ \A i \in 1..2 : res.tried[i].err # NoErr

\* C16 as claimed: the first attempt that succeeds decides the result, and if
\* both attempts fail the error returned is that of the direct-shape attempt.
C16_DirectErrorSurfaced ==
    hStep = "decoded" =>
        \A form \in DecodedForms :
            LET res == hOut[form]
            IN /\ (\E i \in 1..Len(res.tried) : res.tried[i].err = NoErr) => res.err = NoErr
               /\ BothFailed(res) => {res.err} = ErrorOf(res, "direct")

\* C16 as amended: the first attempt that succeeds decides the result (no
\* error is returned), and if both attempts fail the error returned is that
\* of the second attempt, the enveloped-shape one.
C16_EnvelopedErrorSurfaced ==
    hStep = "decoded" =>
        \A form \in DecodedForms :
            LET res == hOut[form]
            IN /\ (\E i \in 1..Len(res.tried) : res.tried[i].err = NoErr) => res.err = NoErr
               /\ res.tried[1].err = NoErr => Len(res.tried) = 1
               /\ BothFailed(res)
                      => res.err = res.tried[2].err /\ {res.err} = ErrorOf(res, "enveloped")

C16_Witness ==
    /\ hStep = "decoded"
    /\ "enveloped" \in DecodedForms
    /\ hIn = <<Member("bytes", Lit("true"))>>
    /\ BothFailed(hOut["enveloped"])
    /\ hOut["enveloped"].tried[1].err = "json: cannot unmarshal object into Ap.Ap"
    /\ hOut["enveloped"].err = ErrCannotUnmarshalFlexInt

\* every member of r has a value its field of Ap takes
WellTyped(r) ==
    \A i \in 1..Len(r) :
        IF r[i].k = "bytes" THEN jsonKind(r[i].v) \in {"number", "string", "null"}
        ELSE jsonKind(r[i].v) \in {"string", "null"}

\* C17: for every payload r that is well typed for Ap, the body {"ap": r}
\* and the body r both decode without error, to records equal field for
\* field.
C17_ShapesAgree ==
    WellTyped(hIn) /\ {"flat", "enveloped"} \subseteq DecodedForms =>
        /\ hOut["flat"].err = NoErr
        /\ hOut["enveloped"].err = NoErr
        /\ hOut["flat"].Ap = hOut["enveloped"].Ap
        /\ \A i \in 1..Len(hIn) :
              hIn[i] = Member("bytes", Lit("10")) => hOut["flat"].Ap.Bytes.Val = Fin(FALSE, 1, 1)

C17_Witness ==
    /\ hIn = <<Member("ap", Lit("\"mac\"")), Member("bytes", Lit("10"))>>
    /\ {"flat", "enveloped"} \subseteq DecodedForms
    /\ hOut["enveloped"].Ap = [SiteID |-> "", Ap |-> "mac", Bytes |-> [Val |-> Fin(FALSE, 1, 1), Txt |-> "10"]]
    /\ hOut["flat"].Ap = hOut["enveloped"].Ap

\* the string elements of an array document, in order
RECURSIVE StringsOf(_)
StringsOf(elems) ==
    IF elems = <<>> THEN <<>>
    ELSE (IF jsonKind(Head(elems)) = "string" THEN <<stringOf(Head(elems))>> ELSE <<>>)
         \o StringsOf(Tail(elems))

FirstDecode == hStep \in {"decoded", "encoded"} /\ hOut.n = 1

\* C21: decoding into a new FlexString: an array sets the array hint, keeps
\* the array's string elements in order (others are dropped) and joins them
\* with ", " as the value; a string s gives no hint, the one item s and the
\* value s; null gives no items and the value ""; a number, a boolean or an
\* object is refused with ErrCannotUnmarshalFlexString.
C21_FlexStringDecode ==
    FirstDecode =>
        /\ jsonKind(hIn) = "array"
               => /\ hOut.err = NoErr
                  /\ hOut.f.hintIsArray
                  /\ hOut.f.Arr = StringsOf(hIn.obj)
                  /\ hOut.f.Val = Join(StringsOf(hIn.obj), ", ")
        /\ jsonKind(hIn) = "string"
               => /\ hOut.err = NoErr
                  /\ ~hOut.f.hintIsArray
                  /\ hOut.f.Arr = <<stringOf(hIn)>>
                  /\ hOut.f.Val = stringOf(hIn)
        /\ jsonKind(hIn) = "null"
               => hOut.err = NoErr /\ hOut.f.Arr = <<>> /\ hOut.f.Val = ""
        /\ jsonKind(hIn) \in {"number", "bool", "object"}
               => hOut.err = ErrCannotUnmarshalFlexString

C21_Witness ==
    /\ FirstDecode
    /\ hIn = Arr(<<Lit("1"), Lit("\"b c\"")>>)
    /\ hOut.f.Arr = <<"b c">>
    /\ hOut.f.Val = "b c"
    /\ hOut.f.hintIsArray

\* C22: an array of strings, of any length, decoded into a new FlexString
\* and encoded again is written as that array; a string is written as that
\* string.
C22_FlexStringRoundTrip ==
    hStep = "encoded" /\ hOut.n = 1 =>
        /\ jsonKind(hIn) = "array" /\ (\A i \in 1..Len(hIn.obj) : jsonKind(hIn.obj[i]) = "string")
               => hOut.enc = hIn
        /\ jsonKind(hIn) = "string" => hOut.enc = hIn

\* C30: after any sequence of successful decodes into one FlexString, its
\* value, items and hint, and what it is encoded as, are those of a new
\* FlexString that decoded the last document.
C30_ReceiverIndependent ==
    hStep \in {"decoded", "encoded"} /\ hOut.err = NoErr =>
        LET fresh == FlexString_UnmarshalJSON(NewFlexStringZero, hIn).f
        IN /\ hOut.f.Val = fresh.Val
           /\ hOut.f.Arr = fresh.Arr
           /\ hOut.f.hintIsArray = fresh.hintIsArray
           /\ hStep = "encoded" => hOut.enc = FlexString_MarshalJSON(fresh)

\* C23: a FlexTemp decoded from a string "<number> <unit>" has the number as
\* value and the whole string as text; from a string without a space, the
\* float the string spells; decoding a string never fails.
C23_FlexTempNumberAndUnit ==
    hStep \in {"temp", "fahrenheit"} =>
        /\ hIn.shape = "unit"
               => hOut.f.err = NoErr /\ hOut.f.Val = hIn.n /\ hOut.f.Txt = hIn.s
        /\ hIn.shape = "string"
               => /\ hOut.f.err = NoErr
                  /\ hOut.f.Txt = hIn.s
                  /\ hOut.f.Val = IF hIn.n.kind = "junk" THEN Zero ELSE hIn.n

\* C24: Fahrenheit returns value * 9/5 + 32 (212 for 100) and leaves the
\* value and the text as they were.
C24_FahrenheitScale ==
    hStep = "fahrenheit" /\ hOut.f.Val.kind = "fin" =>
        /\ hOut.fahrenheit
             = FloatAdd(Normal(hOut.f.Val.neg, hOut.f.Val.m * 18, hOut.f.Val.e - 1),
                        Fin(FALSE, 32, 0))
        /\ hOut.f.Val = Fin(FALSE, 1, 2) => hOut.fahrenheit = Fin(FALSE, 212, 0)
        /\ hOut.f = hOut.before

\* C25: in both packages and both generation states path(path(P)) = path(P);
\* a path that has the prefix and the modern login path come back unchanged.
C25_PathIdempotent ==
    /\ pStep = "again" => pAgain = pOut
    /\ pStep \in {"out", "again"} /\ (StartsWith(pIn, APIPrefixNew) \/ pIn = APILoginPathNew)
           => pOut.protect = pIn /\ pOut.unifi = pIn

C25_Witness ==
    /\ pStep = "again"
    /\ pNew
    /\ pIn = "/api/login"
    /\ pOut.protect = "/api/auth/login"
    /\ pAgain.protect = "/api/auth/login"

\* C26: a request built while no CSRF token has been captured (the login
\* request of the construction included) has no X-CSRF-Token header, and
\* every request (here: every one after the probe) has the Accept and
\* Content-Type headers.
C26_TokenHeaderOnceKnown ==
    [][\A t \in Threads :
          /\ Builds(t) /\ csrf = "" => req'[t].r.hdr.XCSRFToken = <<>>
          /\ req'[t].op \notin {"none", "probe"}
                 => req'[t].r.hdr.Accept # <<>> /\ req'[t].r.hdr.ContentType # <<>>]_vars

\* C28: NewClient does not crash on its pinned certificates: whatever byte
\* strings SSLCert holds, the fingerprint loop ends without a nil
\* dereference and leaves one fingerprint for each certificate supplied.
C28_NoCrashOnCertificates ==
    /\ pc[0] # "panic"
    /\ pc[0] # "start"
           => /\ Len(fingerprints) = Len(SSLCert)
              /\ \A i \in 1..Len(SSLCert) : fingerprints[i] # ""

\* C27: in a session constructed with pinned certificates no request is sent
\* over a connection, the probe's included, whose peer offers no certificate
\* with a pinned fingerprint.
C27_EveryConnectionPinned ==
    Len(hIn.SSLCert) > 0 =>
        \A i \in 1..Len(hOut.conns) :
            hOut.conns[i].sent
                => \E c \in Range(hOut.conns[i].peer.certs), k \in 1..Len(hIn.SSLCert) :
                       sha256hex(c) = sha256hex(pemBytes(hIn.SSLCert[k]))

\* C29: when the decoder falls back to its second attempt, the record is what
\* the second attempt alone decodes: nothing the failed first attempt wrote
\* remains.
C29_NoResidueOfFirstAttempt ==
    hStep = "decoded" =>
        \A form \in DecodedForms :
            Len(hOut[form].tried) = 2
                => hOut[form].Ap = decodeEnvelope(Decoding(ZeroAp), Body(form, hIn)).rec

====
